---- MODULE Spec2Model ----
(***************************************************************************)
(* Model of the Fission decompiler gRPC service (DecompilerServiceImpl):   *)
(* the memory image adapter, the LoadBinary / DecompileFunction /          *)
(* DisassembleRange / Ping handlers, the service mutex and the linear      *)
(* sweep that builds the basic block of a DecompileFunction response.      *)
(***************************************************************************)
EXTENDS Integers, Sequences, FiniteSets, TLC

(***************************************************************************)
(* Bounds of the model.                                                    *)
(***************************************************************************)
\* Width of an address in bits (uint64_t in the code, scaled down).
AddrBits == 10
\* Longest binary_content a LoadBinary request carries.
MaxLen == 2

AddrMod == 2 ^ AddrBits

\* const int MAX_INSTRS = 200;
MAX_INSTRS == 200

\* The gRPC worker threads that run handlers concurrently, and the one thread
\* of the server that serves its requests one at a time.
Clients == {1, 2}
Workers == {1}

\* The threads of the host program that call the C wrapper concurrently.
Callers == {1, 2}

\* Values of one byte of binary_content: one opcode per decoder behaviour.
ByteVals == 0 .. 4

RECURSIVE SeqsUpTo(_, _)
SeqsUpTo(S, n) ==
    IF n = 0 THEN {<<>>}
    ELSE LET shorter == SeqsUpTo(S, n - 1)
         IN  shorter \cup {Append(s, b) : s \in {x \in shorter : Len(x) = n - 1}, b \in S}

\* Inputs of the requests.
Binaries == SeqsUpTo(ByteVals, MaxLen)
Bases == {0, AddrMod - 1}
ArchSpecs == {"", "x86:LE:64:default", "bogus"}
Addresses == {0, 1, AddrMod - 1}
Ranges == {<<0, 2>>, <<1, 1>>}

\* What the external engine does during a call: nothing unusual, or a throw.
Throws == {"LowlevelError", "std::exception", "other"}
LoadFaults == {"none"} \cup Throws
DecompileFaults == {"none", "null_function"} \cup Throws

\* The input sets of the requests served one at a time.
Inputs ==
    [binaries |-> Binaries, bases |-> Bases, arch_specs |-> ArchSpecs,
     addresses |-> Addresses, ranges |-> Ranges,
     load_faults |-> LoadFaults, decompile_faults |-> DecompileFaults]

\* The input sets of the requests served concurrently.
ConcInputs ==
    [binaries |-> {<<>>, <<0, 1>>}, bases |-> {0}, arch_specs |-> {"x86:LE:64:default", "bogus"},
     addresses |-> {0, 1}, ranges |-> {<<0, 2>>},
     load_faults |-> LoadFaults, decompile_faults |-> {"none", "LowlevelError"}]

\* The images of the memory image adapters (a buffer mapped at a base address;
\* at base AddrMod - 1 the end of a buffer of two bytes wraps around) and the
\* reads made of them: below the base, across it, inside and past the end.
ImageInputs ==
    [buffers |-> Binaries \ {<<>>}, bases |-> {0, 1, AddrMod - 1},
     addresses |-> {0, 1, 2, AddrMod - 2, AddrMod - 1}, sizes |-> 0 .. (MaxLen + 1)]

\* The function addresses the client asks for.
ClientAddresses == {0, 1}

\* The input sets of the requests the client sends to an engine that stays up.
CacheInputs ==
    [binaries |-> {<<1>>, <<0, 1>>}, bases |-> {0}, arch_specs |-> {"x86:LE:64:default"},
     addresses |-> ClientAddresses,
     load_faults |-> {"none", "LowlevelError"}, decompile_faults |-> {"none", "LowlevelError"}]

\* The input sets of the requests the client sends to an engine that may
\* terminate.
ClientInputs == CacheInputs

\* The input sets of the requests of a client that loads, decompiles and
\* disassembles from concurrent tasks.
OrderInputs ==
    [binaries |-> {<<0, 1>>}, bases |-> {0}, arch_specs |-> {"x86:LE:64:default"},
     addresses |-> {0}, ranges |-> {<<0, 2>>},
     load_faults |-> {"none", "LowlevelError"}, decompile_faults |-> {"none"}]

NULL == [null |-> TRUE]

\* A pointer that is not null, to the memory that holds x.
Ptr(x) == [at |-> x]

\* The capacity of the buffer the caller of the C wrapper writes into.
BufLen == 175

\* The input sets of the calls of the C wrapper: the directory of the .sla
\* files (NULL: a null pointer), the machine code, the address, the length
\* the caller states for its buffer, and what the engine throws.
WrapperInputs ==
    [sla_dirs |-> {NULL, Ptr("sla")}, byte_seqs |-> {NULL, Ptr(<<0, 1>>)},
     base_addrs |-> Bases, out_lens |-> {0, 1, 16, BufLen - 1, BufLen},
     faults |-> {"none", "std::exception", "LowlevelError"}]

\* The configured number of reconnect attempts.
MaxReconnectAttempts == 2

\* The most binaries the user loads in one run of the client.
MaxSessions == 2

(***************************************************************************)
(* MemoryLoadImage                                                         *)
(***************************************************************************)
\* MemoryLoadImage(d, base): LoadImage("memory"), data_(d), base_addr_(base)
MemoryLoadImage(d, base) == [data_ |-> d, base_addr_ |-> base]

\* The byte loadFill stores in ptr[i] (i counted from 0) for a read at offset.
loadFillByte(img, offset, i) ==
    LET max == (img.base_addr_ + Len(img.data_)) % AddrMod
        cur == (offset + i) % AddrMod
    IN  IF cur >= img.base_addr_ /\ cur < max
        THEN img.data_[((cur - img.base_addr_) % AddrMod) + 1]
        ELSE 0

\* loadFill(ptr, size, addr): the size bytes written to ptr.
loadFill(img, size, offset) == [i \in 1 .. size |-> loadFillByte(img, offset, i - 1)]

(***************************************************************************)
(* The external decoder, reached through arch->translate->printAssembly.   *)
(* It reads the opcode byte at the cursor through the architecture's       *)
(* loader and answers by that byte.                                        *)
(***************************************************************************)
\* A std::string as its characters, for std::string::find.
Chars(str) ==
    CASE str = "ADD" -> <<"A", "D", "D">>
      [] str = "RET" -> <<"R", "E", "T">>
      [] str = "JMP" -> <<"J", "M", "P">>
      [] str = "[RAX],AL" -> <<"[", "R", "A", "X", "]", ",", "A", "L">>
      [] str = "0x0" -> <<"0", "x", "0">>
      [] OTHER -> <<>>

\* hay.find(needle) != string::npos
StrFind(hay, needle) ==
    \E i \in 1 .. (Len(hay) - Len(needle) + 1) :
        SubSeq(hay, i, i + Len(needle) - 1) = needle

\* What the decoder answers for the opcode byte it reads at the cursor.
Decode(opcode) ==
    CASE opcode = 0 -> [thrown |-> "none", length |-> 2, mnem |-> "ADD", body |-> "[RAX],AL"]
      [] opcode = 1 -> [thrown |-> "none", length |-> 1, mnem |-> "RET", body |-> ""]
      [] opcode = 2 -> [thrown |-> "none", length |-> 2, mnem |-> "JMP", body |-> "0x0"]
      [] opcode = 3 -> [thrown |-> "LowlevelError", length |-> 0, mnem |-> "", body |-> ""]
      [] OTHER      -> [thrown |-> "none", length |-> 0, mnem |-> "", body |-> ""]

\* int4 length = arch->translate->printAssembly(emit, cur): the length returned,
\* what emit.dump captured, or the exception thrown.
printAssembly(img, cur) == Decode(loadFill(img, 1, cur)[1])

\* e.explain / e.what() of an exception of the engine.
Explain(kind) ==
    CASE kind = "LowlevelError" -> "engine: low-level error"
      [] kind = "std::exception" -> "std::exception"
      [] OTHER -> ""

(***************************************************************************)
(* DecompilerServiceImpl: the fields of the service object.                *)
(***************************************************************************)
\* ServerArchitecture(sleigh_id, ldr, err): the language, the loader it reads
\* through, and the function records of its global scope.
ServerArchitecture(sleigh_id, ldr) ==
    [sleigh_id |-> sleigh_id, custom_loader |-> ldr, symboltab |-> {}]

\* Languages the .ldefs files describe; arch->init throws for any other id.
KnownLanguages == {"x86:LE:64:default"}

\* The service object after construction.
InitService ==
    [loader |-> NULL, arch |-> NULL, base_address |-> 0, initialized |-> FALSE]

cleanupKeepsFlag(s) ==
    [s EXCEPT !.arch = NULL, !.loader = NULL]

cleanupKeepsLoader(s) ==
    [s EXCEPT !.arch = NULL, !.initialized = FALSE]

\* void cleanup()
cleanup(s) ==
    [s EXCEPT !.arch = NULL, !.loader = NULL, !.initialized = FALSE]

(***************************************************************************)
(* LoadBinary                                                              *)
(***************************************************************************)
LoadBinaryCatchWithoutEllipsis(s, kind) ==
    IF kind \in {"LowlevelError", "std::exception"}
    THEN [svc |-> cleanup(s), status |-> "OK", caught |-> kind,
          reply |-> [success |-> FALSE, error_message |-> Explain(kind)]]
    ELSE [svc |-> s, status |-> "EXCEPTION", caught |-> "none",
          reply |-> [success |-> FALSE, error_message |-> ""]]

\* The catch clauses of LoadBinary applied to an exception of the given kind
\* thrown while the service was in state s.
LoadBinaryCatch(s, kind) ==
    CASE kind = "LowlevelError" ->
            [svc |-> cleanup(s), status |-> "OK", caught |-> kind,
             reply |-> [success |-> FALSE, error_message |-> Explain(kind)]]
      [] kind = "std::exception" ->
            [svc |-> cleanup(s), status |-> "OK", caught |-> kind,
             reply |-> [success |-> FALSE, error_message |-> Explain(kind)]]
      [] OTHER ->
            [svc |-> cleanup(s), status |-> "OK", caught |-> "unknown",
             reply |-> [success |-> FALSE,
                        error_message |-> "Unknown exception during initialization"]]

LanguageIdVerbatim(arch_spec) == arch_spec

\* lang_id = request->arch_spec(); if (lang_id.empty()) lang_id = "x86:LE:64:default";
LanguageId(arch_spec) ==
    IF arch_spec = "" THEN "x86:LE:64:default" ELSE arch_spec

LoadBinaryInPlace(s, request, fault) ==
    LET lang_id == LanguageId(request.arch_spec)
        ldr == MemoryLoadImage(request.binary_content, request.base_address)
        tab == IF s.arch = NULL THEN {} ELSE s.arch.symboltab
        s4 == [s EXCEPT !.base_address = request.base_address, !.loader = ldr,
                        !.arch = [ServerArchitecture(lang_id, ldr) EXCEPT !.symboltab = tab]]
        thrown == IF lang_id \notin KnownLanguages THEN "LowlevelError" ELSE fault
    IN  IF thrown # "none"
        THEN LoadBinaryCatch(s4, thrown)
        ELSE [svc |-> [s4 EXCEPT !.initialized = TRUE], status |-> "OK", caught |-> "none",
              reply |-> [success |-> TRUE, error_message |-> ""]]

LoadBinaryWithoutFlag(s, request, fault) ==
    LET s1 == cleanup(s)
        s2 == [s1 EXCEPT !.base_address = request.base_address]
        s3 == [s2 EXCEPT !.loader = MemoryLoadImage(request.binary_content, s2.base_address)]
        lang_id == LanguageId(request.arch_spec)
        s4 == [s3 EXCEPT !.arch = ServerArchitecture(lang_id, s3.loader)]
        thrown == IF lang_id \notin KnownLanguages THEN "LowlevelError" ELSE fault
    IN  IF thrown # "none"
        THEN LoadBinaryCatch(s4, thrown)
        ELSE [svc |-> s4, status |-> "OK", caught |-> "none",
              reply |-> [success |-> TRUE, error_message |-> ""]]

\* Status LoadBinary(ctx, request, reply), the body under the lock. fault is what
\* the engine throws while the architecture is built ("none": nothing).
LoadBinary(s, request, fault) ==
    LET s1 == cleanup(s)
        s2 == [s1 EXCEPT !.base_address = request.base_address]
        s3 == [s2 EXCEPT !.loader = MemoryLoadImage(request.binary_content, s2.base_address)]
        lang_id == LanguageId(request.arch_spec)
        s4 == [s3 EXCEPT !.arch = ServerArchitecture(lang_id, s3.loader)]
        thrown == IF lang_id \notin KnownLanguages THEN "LowlevelError" ELSE fault
    IN  IF thrown # "none"
        THEN LoadBinaryCatch(s4, thrown)
        ELSE [svc |-> [s4 EXCEPT !.initialized = TRUE], status |-> "OK", caught |-> "none",
              reply |-> [success |-> TRUE, error_message |-> ""]]

(***************************************************************************)
(* DecompileFunction                                                       *)
(***************************************************************************)
\* std::hex << n, as its digits.
RECURSIVE Hex(_)
Hex(n) ==
    LET digit == <<"0", "1", "2", "3", "4", "5", "6", "7",
                   "8", "9", "a", "b", "c", "d", "e", "f">>
    IN  IF n < 16 THEN <<digit[n + 1]>> ELSE Append(Hex(n \div 16), digit[(n % 16) + 1])

\* fname << "func_" << std::hex << request->address()
FunctionName(address) == <<"func_">> \o Hex(address)

\* A default-constructed DecompileResponse.
DecompileResponse ==
    [success |-> FALSE, signature |-> <<>>, c_code |-> <<>>, blocks |-> <<>>,
     error_message |-> ""]

\* if (!initialized || !arch)
NotLoaded(s) == ~s.initialized \/ s.arch = NULL

NotLoadedReplyNoMessage ==
    [DecompileResponse EXCEPT !.success = FALSE]

\* The reply of DecompileFunction when no binary is loaded.
NotLoadedReply ==
    [DecompileResponse EXCEPT !.success = FALSE, !.error_message = "Binary not loaded"]

\* Funcdata* fd = global_scope->findFunction(func_addr); the record or NULL.
findFunction(symboltab, address) ==
    IF \E f \in symboltab : f.address = address
    THEN CHOOSE f \in symboltab : f.address = address
    ELSE NULL

\* global_scope->addFunction(func_addr, fname.str())
addFunction(symboltab, address, name) ==
    symboltab \cup {[address |-> address, name |-> name, procStarted |-> FALSE, analyses |-> 0]}

clearAnalysisSkipped(symboltab, address) == symboltab

\* arch->clearAnalysis(fd): the record of address holds no analysis and its
\* processing has not started.
clearAnalysis(symboltab, address) ==
    {IF f.address = address THEN [f EXCEPT !.procStarted = FALSE, !.analyses = 0] ELSE f :
        f \in symboltab}

\* reset(*fd); perform(*fd): the processing of the record of address has
\* started and it holds the analysis of one more run.
perform(symboltab, address) ==
    {IF f.address = address THEN [f EXCEPT !.procStarted = TRUE, !.analyses = @ + 1] ELSE f :
        f \in symboltab}

\* arch->print->docFunction(fd): the C text the engine renders for a function
\* of the loaded image (opaque: named by what it is rendered from).
docFunction(arch, fd) ==
    <<"c_code", fd.name, arch.sleigh_id, arch.custom_loader.base_addr_, arch.custom_loader.data_>>

\* One pb_block->add_instructions() with its four setters.
Instruction(address, length, emit) ==
    [address |-> address, length |-> length, mnemonic |-> emit.mnem,
     operands |-> emit.body, raw_bytes |-> <<>>]

LoopConditionInclusive(instr_count) == instr_count <= MAX_INSTRS

\* while (instr_count < MAX_INSTRS)
LoopCondition(instr_count) == instr_count < MAX_INSTRS

DecodeFailedOnlyNegative(length) == length < 0

\* if (length <= 0) break;
DecodeFailed(length) == length <= 0

AdvanceByOne(cur, length) == (cur + 1) % AddrMod

\* cur = cur + length (Address::operator+ wraps in the address space)
Advance(cur, length) == (cur + length) % AddrMod

\* One pass of the while loop of the linear disassembly, from the loop state st
\* (cursor, instr_count, the instructions appended so far); running is false
\* once the loop was left, by its condition, a break or an exception.
SweepStep(arch, st) ==
    IF ~st.running THEN st
    ELSE IF ~LoopCondition(st.instr_count) THEN [st EXCEPT !.running = FALSE]
    ELSE LET emit == printAssembly(arch.custom_loader, st.cur)
             length == emit.length
             appended == Append(st.instructions, Instruction(st.cur, length, emit))
         IN  IF emit.thrown # "none"
             THEN [st EXCEPT !.running = FALSE, !.thrown = emit.thrown]
             ELSE IF DecodeFailed(length)
             THEN [st EXCEPT !.running = FALSE]
             ELSE IF StrFind(Chars(emit.mnem), Chars("RET"))
             THEN [st EXCEPT !.running = FALSE, !.instructions = appended]
             ELSE [st EXCEPT !.cur = Advance(st.cur, length),
                             !.instr_count = st.instr_count + 1,
                             !.instructions = appended]

\* n passes of the loop from st.
RECURSIVE SweepSteps(_, _, _)
SweepSteps(arch, st, n) ==
    IF n = 0 THEN st
    ELSE IF n = 1 THEN SweepStep(arch, st)
    ELSE LET half == SweepSteps(arch, st, n \div 2)
         IN  IF half.running THEN SweepSteps(arch, half, n - (n \div 2)) ELSE half

\* Passes the model gives the loop; a loop still running after them has not
\* terminated.
SweepFuel == 2 * MAX_INSTRS + 2

\* Address cur = func_addr; int instr_count = 0; while (...) {...}: the loop
\* state when the loop is left.
Sweep(arch, func_addr) ==
    SweepSteps(arch, [cur |-> func_addr, instr_count |-> 0, instructions |-> <<>>,
                      running |-> TRUE, thrown |-> "none"], SweepFuel)

DecompileCatchWithCleanup(s, reply, kind) ==
    [svc |-> cleanup(s), status |-> "OK",
     caught |-> IF kind \in {"LowlevelError", "std::exception"} THEN kind ELSE "unknown",
     reply |-> [reply EXCEPT !.success = FALSE,
                !.error_message = IF kind \in {"LowlevelError", "std::exception"}
                                  THEN Explain(kind)
                                  ELSE "Unknown exception during decompilation"]]

\* The catch clauses of DecompileFunction applied to an exception of the given
\* kind, thrown when the service was in state s and reply was filled so far.
DecompileCatch(s, reply, kind) ==
    CASE kind = "LowlevelError" ->
            [svc |-> s, status |-> "OK", caught |-> kind,
             reply |-> [reply EXCEPT !.success = FALSE, !.error_message = Explain(kind)]]
      [] kind = "std::exception" ->
            [svc |-> s, status |-> "OK", caught |-> kind,
             reply |-> [reply EXCEPT !.success = FALSE, !.error_message = Explain(kind)]]
      [] OTHER ->
            [svc |-> s, status |-> "OK", caught |-> "unknown",
             reply |-> [reply EXCEPT !.success = FALSE,
                        !.error_message = "Unknown exception during decompilation"]]

GenerateBlocksWithSuccessor(s, reply, func_addr) ==
    LET sw == Sweep(s.arch, func_addr)
        pb_block == [id |-> func_addr, start_addr |-> func_addr, end_addr |-> 0,
                     instructions |-> sw.instructions]
        successor == [id |-> sw.cur, start_addr |-> sw.cur, end_addr |-> sw.cur,
                      instructions |-> <<>>]
    IN  IF sw.running
        THEN [svc |-> s, status |-> "NO_RETURN", caught |-> "none",
              reply |-> [reply EXCEPT !.blocks = <<pb_block>>]]
        ELSE IF sw.thrown # "none"
        THEN DecompileCatch(s, [reply EXCEPT !.blocks = <<pb_block>>], sw.thrown)
        ELSE [svc |-> s, status |-> "OK", caught |-> "none",
              reply |-> [reply EXCEPT
                            !.blocks = <<[pb_block EXCEPT !.end_addr = sw.cur], successor>>]]

GenerateBlocksIdZero(s, reply, func_addr) ==
    LET sw == Sweep(s.arch, func_addr)
        pb_block == [id |-> 0, start_addr |-> func_addr, end_addr |-> 0,
                     instructions |-> sw.instructions]
    IN  IF sw.running
        THEN [svc |-> s, status |-> "NO_RETURN", caught |-> "none",
              reply |-> [reply EXCEPT !.blocks = <<pb_block>>]]
        ELSE IF sw.thrown # "none"
        THEN DecompileCatch(s, [reply EXCEPT !.blocks = <<pb_block>>], sw.thrown)
        ELSE [svc |-> s, status |-> "OK", caught |-> "none",
              reply |-> [reply EXCEPT !.blocks = <<[pb_block EXCEPT !.end_addr = sw.cur]>>]]

\* "===== Generate Disassembly Blocks =====": the block added to reply and the
\* sweep that fills it, from the state after the C code was generated.
GenerateBlocks(s, reply, func_addr) ==
    LET sw == Sweep(s.arch, func_addr)
        pb_block == [id |-> func_addr, start_addr |-> func_addr, end_addr |-> 0,
                     instructions |-> sw.instructions]
    IN  IF sw.running
        THEN \* the loop never ends: the handler does not return
             [svc |-> s, status |-> "NO_RETURN", caught |-> "none",
              reply |-> [reply EXCEPT !.blocks = <<pb_block>>]]
        ELSE IF sw.thrown # "none"
        THEN DecompileCatch(s, [reply EXCEPT !.blocks = <<pb_block>>], sw.thrown)
        ELSE [svc |-> s, status |-> "OK", caught |-> "none",
              reply |-> [reply EXCEPT !.blocks = <<[pb_block EXCEPT !.end_addr = sw.cur]>>]]

\* Status DecompileFunction(ctx, request, reply), the body under the lock. fault
\* is what the engine does in the analysis: "null_function" (addFunction yields
\* no function), a throw of perform(), or "none".
DecompileFunction(s, request, fault) ==
    IF NotLoaded(s)
    THEN [svc |-> s, status |-> "OK", caught |-> "none", reply |-> NotLoadedReply]
    ELSE
    LET func_addr == request.address
        fname == FunctionName(request.address)
        found == findFunction(s.arch.symboltab, func_addr)
        tab1 == IF found = NULL /\ fault # "null_function"
                THEN addFunction(s.arch.symboltab, func_addr, fname)
                ELSE s.arch.symboltab
        fd == findFunction(tab1, func_addr)
    IN  IF fd = NULL
        THEN [svc |-> s, status |-> "OK", caught |-> "none",
              reply |-> [DecompileResponse EXCEPT !.success = FALSE,
                                                  !.error_message = "Failed to create function"]]
        ELSE
        LET \* if (fd->isProcStarted()) arch->clearAnalysis(fd);
            tab2 == IF fd.procStarted THEN clearAnalysis(tab1, func_addr) ELSE tab1
            \* reset(*fd); perform(*fd): the analysis has started, even if it throws
            tab3 == perform(tab2, func_addr)
            s1 == [s EXCEPT !.arch.symboltab = tab3]
            fd3 == findFunction(tab3, func_addr)
            r1 == [DecompileResponse EXCEPT
                       !.c_code = docFunction(s1.arch, fd3),
                       !.signature = fd3.name \o <<"()">>,
                       !.success = TRUE]
        IN  IF fault \notin {"none", "null_function"}
            THEN DecompileCatch(s1, DecompileResponse, fault)
            ELSE GenerateBlocks(s1, r1, func_addr)

(***************************************************************************)
(* DisassembleRange and Ping                                               *)
(***************************************************************************)
\* A default-constructed DisassembleResponse.
DisassembleResponse == [success |-> FALSE, instructions |-> <<>>, error_message |-> ""]

\* Status DisassembleRange(ctx, request, reply) { return Status::OK; }
DisassembleRange(s, request) ==
    [svc |-> s, status |-> "OK", caught |-> "none", reply |-> DisassembleResponse]

PingResetsSession(s, request) ==
    [svc |-> cleanup(s), status |-> "OK", caught |-> "none", reply |-> [alive |-> TRUE]]

\* Status Ping(context, request, reply): reply->set_alive(true)
Ping(s, request) ==
    [svc |-> s, status |-> "OK", caught |-> "none", reply |-> [alive |-> TRUE]]

(***************************************************************************)
(* The C wrapper (wrapper.cpp): fission_decompiler_init, fission_decompile, *)
(* fission_disassemble and fission_get_error, called through the C ABI.    *)
(* A std::string is the sequence of its characters; a call answers with    *)
(* the values of g_last_error and of the caller's buffer after it, and     *)
(* either the value it returns or the exception that leaves it.            *)
(***************************************************************************)
\* BufferLoadImage(buffer, size, base_addr)
BufferLoadImage(buffer, size, base_addr) ==
    [m_buffer |-> buffer, m_buffer_size |-> size, m_base_addr |-> base_addr]

\* BufferLoadImage::loadFill(ptr, size, addr): the size bytes written to ptr.
BufferLoadImage_loadFill(img, size, offset) ==
    IF offset < img.m_base_addr
    THEN [i \in 1 .. size |-> 0]
    ELSE LET rel_offset == offset - img.m_base_addr
         IN  [i \in 1 .. size |->
                IF (rel_offset + (i - 1)) % AddrMod < img.m_buffer_size
                THEN img.m_buffer[((rel_offset + (i - 1)) % AddrMod) + 1]
                ELSE 0]

\* '\\0'
NUL == "NUL"

\* A byte of the caller's buffer that no call has written.
Untouched == "untouched"

\* output << "// Decompiled by Fission (Ghidra Sleigh Engine)\\n"
DecompiledBy ==
    <<"/", "/", " ", "D", "e", "c", "o", "m", "p", "i", "l", "e", "d", " ", "b", "y", " ", "F",
      "i", "s", "s", "i", "o", "n", " ", "(", "G", "h", "i", "d", "r", "a", " ", "S", "l", "e",
      "i", "g", "h", " ", "E", "n", "g", "i", "n", "e", ")", "\n">>

\* "// Address: 0x"
AddressIs ==
    <<"/", "/", " ", "A", "d", "d", "r", "e", "s", "s", ":", " ", "0", "x">>

\* "void func_"
VoidFunc ==
    <<"v", "o", "i", "d", " ", "f", "u", "n", "c", "_">>

\* "() {\\n"
OpenBrace ==
    <<"(", ")", " ", "{", "\n">>

\* "    // P-code lifting placeholder\\n"
LiftingPlaceholder ==
    <<" ", " ", " ", " ", "/", "/", " ", "P", "-", "c", "o", "d", "e", " ", "l", "i", "f", "t",
      "i", "n", "g", " ", "p", "l", "a", "c", "e", "h", "o", "l", "d", "e", "r", "\n">>

\* "    // Full decompilation requires Funcdata analysis\\n"
RequiresFuncdata ==
    <<" ", " ", " ", " ", "/", "/", " ", "F", "u", "l", "l", " ", "d", "e", "c", "o", "m", "p",
      "i", "l", "a", "t", "i", "o", "n", " ", "r", "e", "q", "u", "i", "r", "e", "s", " ", "F",
      "u", "n", "c", "d", "a", "t", "a", " ", "a", "n", "a", "l", "y", "s", "i", "s", "\n">>

\* "}\\n"
CloseBrace ==
    <<"}", "\n">>

\* std::string result = output.str() of fission_decompile.
DecompileText(base_addr) ==
    DecompiledBy \o AddressIs \o Hex(base_addr) \o <<"\n", "\n">>
        \o VoidFunc \o Hex(base_addr) \o OpenBrace
        \o LiftingPlaceholder \o RequiresFuncdata \o CloseBrace

\* StringAssemblyEmit::dump(addr, mnem, body): the line written to out.
dump(offset, mnem, body) ==
    Hex(offset) \o <<":", " ", " ">> \o Chars(mnem)
        \o (IF body # "" THEN <<" ">> \o Chars(body) ELSE <<>>) \o <<"\n">>

\* int max_instructions = 100;
max_instructions == 100

\* while (offset < bytes_len && count < max_instructions) {...} of
\* fission_disassemble, from the loop state (offset, count, output): the
\* text in output when the loop is left, or the exception that leaves it.
RECURSIVE DisassembleLoop(_, _, _, _, _, _)
DisassembleLoop(loader, base_addr, bytes_len, offset, count, output) ==
    IF ~(offset < bytes_len /\ count < max_instructions)
    THEN [thrown |-> "none", output |-> output]
    ELSE LET current_addr == (base_addr + offset) % AddrMod
             emit == Decode(BufferLoadImage_loadFill(loader, 1, current_addr)[1])
             instr_len == emit.length
         IN  IF emit.thrown # "none" THEN [thrown |-> emit.thrown, output |-> output]
             ELSE IF instr_len <= 0 THEN [thrown |-> "none", output |-> output]
             ELSE DisassembleLoop(loader, base_addr, bytes_len, offset + instr_len, count + 1,
                                  output \o dump(current_addr, emit.mnem, emit.body))

\* std::string result = output.str() of fission_disassemble.
DisassembleText(bytes, bytes_len, base_addr) ==
    DisassembleLoop(BufferLoadImage(bytes, bytes_len, base_addr), base_addr, bytes_len,
                    0, 0, <<>>)

\* std::min(a, b)
Min(a, b) == IF a < b THEN a ELSE b

\* A call that returns ret, with g_last_error and out_buffer as it leaves them.
Returned(error, out_buffer, ret) ==
    [status |-> "returned", ret |-> ret, g_last_error |-> error, out_buffer |-> out_buffer]

\* A call that an exception of the given kind leaves (no catch clause
\* matches it).
Escaped(error, out_buffer, kind) ==
    [status |-> "EXCEPTION", thrown |-> kind, g_last_error |-> error, out_buffer |-> out_buffer]

CopyOutWithoutTerminator(error, out_buffer, out_len, result) ==
    LET copy_len == Min(Len(result), out_len)
    IN  Returned(error,
                 [i \in 1 .. Len(out_buffer) |->
                    IF i <= copy_len THEN result[i] ELSE out_buffer[i]],
                 copy_len)

\* copy_len = std::min(result.size(), out_len - 1); memcpy(out_buffer,
\* result.c_str(), copy_len); out_buffer[copy_len] = '\0'; return copy_len
\* (a size below 2^31: the cast to int keeps it).
CopyOut(error, out_buffer, out_len, result) ==
    LET copy_len == Min(Len(result), out_len - 1)
    IN  Returned(error,
                 [i \in 1 .. Len(out_buffer) |->
                    IF i <= copy_len THEN result[i]
                    ELSE IF i = copy_len + 1 THEN NUL
                    ELSE out_buffer[i]],
                 copy_len)

ArgumentErrorUnrecorded(error, decomp, bytes, bytes_len, out_buffer, out_len) ==
    IF decomp = NULL \/ ~decomp.initialized THEN error
    ELSE IF bytes = NULL \/ bytes_len = 0 THEN error
    ELSE IF out_buffer = NULL \/ out_len = 0 THEN error
    ELSE <<>>

\* The three checks that open fission_decompile and fission_disassemble: the
\* message stored in g_last_error before return -1, or none.
ArgumentError(error, decomp, bytes, bytes_len, out_buffer, out_len) ==
    IF decomp = NULL \/ ~decomp.initialized THEN <<"Decompiler not initialized">>
    ELSE IF bytes = NULL \/ bytes_len = 0 THEN <<"Invalid input bytes">>
    ELSE IF out_buffer = NULL \/ out_len = 0 THEN <<"Invalid output buffer">>
    ELSE <<>>

\* What is in the memory pointer p points to (nothing for nullptr).
Contents(p) == IF p = NULL THEN NULL ELSE p.at

\* The arguments pass none of the three checks' conditions.
ArgumentsValid(decomp, bytes, bytes_len, out_buffer, out_len) ==
    ~(decomp = NULL \/ ~decomp.initialized) /\ ~(bytes = NULL \/ bytes_len = 0)
        /\ ~(out_buffer = NULL \/ out_len = 0)

\* static bool ensureLibraryInitialized(sla_dir), under g_init_mutex: the
\* value returned with g_library_initialized and g_last_error after it. fault
\* is what startDecompilerLibrary throws.
ensureLibraryInitialized(initialized, error, sla_dir, fault) ==
    IF initialized
    THEN [status |-> "returned", ret |-> TRUE, g_library_initialized |-> TRUE,
          g_last_error |-> error]
    ELSE IF fault = "none"
    THEN [status |-> "returned", ret |-> TRUE, g_library_initialized |-> TRUE,
          g_last_error |-> error]
    ELSE IF fault = "std::exception"
    THEN [status |-> "returned", ret |-> FALSE, g_library_initialized |-> FALSE,
          g_last_error |-> <<"Failed to initialize library: ", Explain(fault)>>]
    ELSE [status |-> "EXCEPTION", thrown |-> fault, g_library_initialized |-> FALSE,
          g_last_error |-> error]

\* FissionDecompiler* fission_decompiler_init(sla_dir): the handle returned
\* (NULL: nullptr).
fission_decompiler_init(initialized, error, sla_dir, fault) ==
    IF sla_dir = NULL
    THEN [status |-> "returned", ret |-> NULL, g_library_initialized |-> initialized,
          g_last_error |-> <<"sla_dir is null">>]
    ELSE LET e == ensureLibraryInitialized(initialized, error, sla_dir, fault)
         IN  IF e.status # "returned" THEN e
             ELSE IF ~e.ret THEN [e EXCEPT !.ret = NULL]
             ELSE [e EXCEPT !.ret = [sla_dir |-> sla_dir.at, initialized |-> TRUE]]

\* const char* fission_get_error(void): nullptr when no message is stored.
fission_get_error(error) == IF error = <<>> THEN NULL ELSE Ptr(error)

\* int fission_is_available(void)
fission_is_available(initialized) == IF initialized THEN 1 ELSE 0

\* int fission_decompile(decomp, bytes, bytes_len, base_addr, out_buffer,
\* out_len). error is g_last_error at the call, fault what the Sleigh
\* translator throws while it is set up ("none": nothing).
fission_decompile(error, decomp, bytes, bytes_len, base_addr, out_buffer, out_len, fault) ==
    IF ~ArgumentsValid(decomp, bytes, bytes_len, out_buffer, out_len)
    THEN Returned(ArgumentError(error, decomp, bytes, bytes_len, out_buffer, out_len),
                  Contents(out_buffer), -1)
    ELSE IF fault = "std::exception"
    THEN Returned(<<"Decompilation failed: ", Explain(fault)>>, out_buffer.at, -1)
    ELSE IF fault # "none"
    THEN Escaped(error, out_buffer.at, fault)
    ELSE CopyOut(error, out_buffer.at, out_len, DecompileText(base_addr))

\* int fission_disassemble(decomp, bytes, bytes_len, base_addr, out_buffer,
\* out_len), likewise.
fission_disassemble(error, decomp, bytes, bytes_len, base_addr, out_buffer, out_len, fault) ==
    IF ~ArgumentsValid(decomp, bytes, bytes_len, out_buffer, out_len)
    THEN Returned(ArgumentError(error, decomp, bytes, bytes_len, out_buffer, out_len),
                  Contents(out_buffer), -1)
    ELSE IF fault = "std::exception"
    THEN Returned(<<"Disassembly failed: ", Explain(fault)>>, out_buffer.at, -1)
    ELSE IF fault # "none"
    THEN Escaped(error, out_buffer.at, fault)
    ELSE LET text == DisassembleText(bytes.at, bytes_len, base_addr)
         IN  IF text.thrown # "none"
             THEN Escaped(error, out_buffer.at, text.thrown)
             ELSE CopyOut(error, out_buffer.at, out_len, text.output)

(***************************************************************************)
(* The server: the service object, its mutex and the handler threads.      *)
(***************************************************************************)
VARIABLES
    svc,    \* the fields of the DecompilerServiceImpl object
    mu_,    \* std::mutex mu_: 0 when unlocked, else the thread that holds it
    pc,     \* where each handler thread is: idle, lock, body or done
    call,   \* the RPC each thread serves and, once done, what it answered
    proc,   \* the engine process: up or down, and the sessions it has created
    client, \* the client: connection state, mirrored session, result cache
    task,   \* the client tasks: the call each one is in and its RPC on the wire
    g_last_error,           \* static thread_local std::string g_last_error
    g_library_initialized,  \* static bool g_library_initialized
    decomp,                 \* the FissionDecompiler the caller holds a handle of
    out_buffer,             \* the buffer the caller passed to its last call
    ffi,                    \* the last call through the C ABI and its outcome
    g_init_mutex,           \* static std::mutex g_init_mutex: 0 or the thread holding it
    caller,                 \* the concurrent callers: their call, position and thread_local g_last_error
    startups,               \* how often startDecompilerLibrary completed, and whether
                            \* fission_is_available has answered 1
    image,                  \* the buffer and base address both memory image adapters are built on
    fill                    \* the last loadFill made of both adapters, and what each wrote

vars == <<svc, mu_, pc, call>>

\* The client's variables (the handler threads never touch them).
cvars == <<proc, client, task>>

\* The tasks of the client that call its API concurrently, and the one task
\* of a client whose user makes one call at a time.
Tasks == {1, 2}
Users == {1}

\* The client after it connected to a freshly started engine: no session
\* mirrored, nothing cached, no reconnect attempt made.
InitClient ==
    [conn |-> "Connected", attempts |-> 0, session |-> NULL, epoch |-> 0, replay |-> NULL,
     cache |-> {}, issued |-> [a \in ClientAddresses |-> 0]]

\* A task that is in no call.
IdleTask == [pc |-> "idle"]

\* The engine process runs and the client is connected and idle.
InitClientSide ==
    /\ proc = [state |-> "up", sessions |-> 0]
    /\ client = InitClient
    /\ task = [c \in Tasks |-> IdleTask]

\* The variables of the initialisation of the library by concurrent callers.
ivars == <<g_init_mutex, caller, startups>>

\* The variables of the comparison of the two memory image adapters.
mvars == <<image, fill>>

\* The variables of the C wrapper and of its callers.
wvars == <<g_last_error, g_library_initialized, decomp, out_buffer, ffi, ivars, mvars>>

\* A caller thread that is in no call, with the message its g_last_error holds.
IdleCaller(error) == [pc |-> "idle", g_last_error |-> error]

\* The buffer the caller passes to a call: BufLen bytes, none written yet.
FreshBuffer == [i \in 1 .. BufLen |-> Untouched]

\* The library before its first call: no message, not initialized, no handle,
\* and a buffer of the caller that nothing was written to.
InitWrapper ==
    /\ g_last_error = <<>>
    /\ g_library_initialized = FALSE
    /\ decomp = NULL
    /\ out_buffer = FreshBuffer
    /\ ffi = [fn |-> "none"]
    /\ g_init_mutex = 0
    /\ caller = [t \in Callers |-> IdleCaller(<<>>)]
    /\ startups = [completed |-> 0, available |-> FALSE]

\* No read of the adapters made yet.
NoFill == [read |-> FALSE]

NoCall == [rpc |-> "none"]

\* The handlers whose first statement is std::lock_guard<std::mutex> lock(mu_).
LockingHandlers == {"LoadBinary", "DecompileFunction"}
Handlers == LockingHandlers \cup {"DisassembleRange", "Ping"}

\* The server with one handler thread, after construction.
Init ==
    /\ svc = InitService
    /\ mu_ = 0
    /\ pc = [t \in Workers |-> "idle"]
    /\ call = [t \in Workers |-> NoCall]
    /\ InitClientSide
    /\ InitWrapper
    /\ image = [data |-> <<>>, base |-> 0]
    /\ fill = NoFill

\* The server with every handler thread of Clients, after construction.
InitConc ==
    /\ svc = InitService
    /\ mu_ = 0
    /\ pc = [t \in Clients |-> "idle"]
    /\ call = [t \in Clients |-> NoCall]
    /\ InitClientSide
    /\ InitWrapper
    /\ image = [data |-> <<>>, base |-> 0]
    /\ fill = NoFill

Threads == DOMAIN pc

CallThenLock(t, rpc) ==
    /\ pc[t] = "idle"
    /\ pc' = [pc EXCEPT ![t] = "lock"]
    /\ call' = [call EXCEPT ![t] = [rpc |-> rpc]]
    /\ UNCHANGED <<svc, mu_, cvars, wvars>>

\* gRPC hands request rpc to thread t: the handler is entered.
Call(t, rpc) ==
    /\ pc[t] = "idle"
    /\ pc' = [pc EXCEPT ![t] = IF rpc \in LockingHandlers THEN "lock" ELSE "body"]
    /\ call' = [call EXCEPT ![t] = [rpc |-> rpc]]
    /\ UNCHANGED <<svc, mu_, cvars, wvars>>

LockWithoutWaiting(t) ==
    /\ pc[t] = "lock"
    /\ mu_' = t
    /\ pc' = [pc EXCEPT ![t] = "body"]
    /\ UNCHANGED <<svc, call, cvars, wvars>>

\* std::lock_guard<std::mutex> lock(mu_): blocks while another thread holds mu_.
Lock(t) ==
    /\ pc[t] = "lock"
    /\ mu_ = 0
    /\ mu_' = t
    /\ pc' = [pc EXCEPT ![t] = "body"]
    /\ UNCHANGED <<svc, call, cvars, wvars>>

\* The handler of thread t runs to its return with result r for request;
\* leaving the scope destroys the lock_guard, if there is one.
Finish(t, request, r) ==
    /\ svc' = r.svc
    /\ mu_' = IF mu_ = t THEN 0 ELSE mu_
    /\ pc' = [pc EXCEPT ![t] = "done"]
    /\ call' = [call EXCEPT ![t] =
                  [rpc |-> call[t].rpc, request |-> request, status |-> r.status,
                   caught |-> r.caught, reply |-> r.reply]]
    /\ UNCHANGED <<cvars, wvars>>

LoadBinaryBody(t, in) ==
    /\ pc[t] = "body" /\ call[t].rpc = "LoadBinary"
    /\ \E bytes \in in.binaries, base \in in.bases, spec \in in.arch_specs,
          fault \in in.load_faults :
          LET request == [binary_content |-> bytes, base_address |-> base, arch_spec |-> spec]
          IN  Finish(t, request, LoadBinary(svc, request, fault))

DecompileFunctionBody(t, in) ==
    /\ pc[t] = "body" /\ call[t].rpc = "DecompileFunction"
    /\ \E address \in in.addresses, fault \in in.decompile_faults :
          LET request == [address |-> address]
          IN  Finish(t, request, DecompileFunction(svc, request, fault))

DisassembleRangeBody(t, in) ==
    /\ pc[t] = "body" /\ call[t].rpc = "DisassembleRange"
    /\ \E range \in in.ranges :
          LET request == [start |-> range[1], end |-> range[2]]
          IN  Finish(t, request, DisassembleRange(svc, request))

PingBody(t) ==
    /\ pc[t] = "body" /\ call[t].rpc = "Ping"
    /\ Finish(t, [ping |-> TRUE], Ping(svc, [ping |-> TRUE]))

\* The response of thread t has been sent; the thread takes the next request.
Return(t) ==
    /\ pc[t] = "done"
    /\ pc' = [pc EXCEPT ![t] = "idle"]
    /\ call' = [call EXCEPT ![t] = NoCall]
    /\ UNCHANGED <<svc, mu_, cvars, wvars>>

Next ==
    \E t \in Workers :
        \/ \E rpc \in Handlers : Call(t, rpc)
        \/ Lock(t)
        \/ LoadBinaryBody(t, Inputs)
        \/ DecompileFunctionBody(t, Inputs)
        \/ DisassembleRangeBody(t, Inputs)
        \/ PingBody(t)
        \/ Return(t)

NextConc ==
    \E t \in Clients :
        \/ \E rpc \in Handlers : Call(t, rpc)
        \/ Lock(t)
        \/ LoadBinaryBody(t, ConcInputs)
        \/ DecompileFunctionBody(t, ConcInputs)
        \/ DisassembleRangeBody(t, ConcInputs)
        \/ PingBody(t)
        \/ Return(t)

\* One handler thread, served requests drawn from the full input sets.
Spec == Init /\ [][Next]_vars

\* Concurrent handler threads, served requests drawn from the small input sets.
SpecConc == InitConc /\ [][NextConc]_vars

(***************************************************************************)
(* The client: the result cache with its single-flight rule and the        *)
(* session/reconnection state machine. A task's call is in one of the      *)
(* places idle, wait (for an RPC of another task, or for a LoadBinary in   *)
(* flight), sent (its RPC is on the way to the engine), answered (the      *)
(* engine ran the handler, the response is on the way back), lost (the     *)
(* engine process died before it ran the handler) and have (the call has   *)
(* returned its result to the caller).                                     *)
(***************************************************************************)
\* The identity of a BinarySession is its number in the order the sessions
\* were created (0: no session). The identity of the session the engine holds:
EngineSession(s, p) ==
    IF s.initialized /\ s.arch # NULL /\ s.loader # NULL THEN p.sessions ELSE 0

\* The identity of the session the client takes the engine to hold: that of
\* the last LoadBinary it saw succeed.
CurrentSession == client.epoch

\* The RPCs of the tasks that are outstanding.
Outstanding == {d \in Tasks : task[d].pc \in {"sent", "answered", "lost"}}

InFlightUnseen(address) == FALSE

\* A DecompileFunction RPC for address is outstanding.
InFlight(address) ==
    \E d \in Outstanding : task[d].op = "get_or_compute" /\ task[d].request.address = address

LoadInFlightUnseen == FALSE

\* A LoadBinary RPC is outstanding.
LoadInFlight == \E d \in Outstanding : task[d].op = "load_binary"

HitsOfAnySession(address) == {e \in client.cache : e.address = address}

\* The cache entries get_or_compute may answer from: those of address that
\* are tagged with the current session.
Hits(address) == {e \in client.cache : e.address = address /\ e.tag = CurrentSession}

\* The call of task c sends its RPC: it reaches a running engine or is lost.
Sent(c, op, request) ==
    [pc |-> IF proc.state = "up" THEN "sent" ELSE "lost", op |-> op, request |-> request,
     tag |-> CurrentSession]

\* The lookup of get_or_compute(address) by task c: answer from the cache,
\* else wait for the RPC in flight for the address, else perform the RPC
\* (once no LoadBinary is in flight).
Lookup(c, address) ==
    LET request == [address |-> address]
    IN  IF Hits(address) # {}
        THEN LET e == CHOOSE e \in Hits(address) : TRUE
             IN  /\ task' = [task EXCEPT ![c] =
                               [pc |-> "have", op |-> "get_or_compute", request |-> request,
                                tag |-> e.tag, reply |-> e.result, against |-> e.against]]
                 /\ UNCHANGED client
        ELSE IF InFlight(address) \/ LoadInFlight
        THEN /\ task' = [task EXCEPT ![c] =
                           [pc |-> "wait", op |-> "get_or_compute", request |-> request]]
             /\ UNCHANGED client
        ELSE /\ task' = [task EXCEPT ![c] = Sent(c, "get_or_compute", request)]
             /\ client' = [client EXCEPT !.issued[address] = @ + 1]

\* Task c calls get_or_compute(address).
GetOrCompute(c, address) ==
    /\ task[c].pc = "idle"
    /\ client.conn = "Connected"
    /\ Lookup(c, address)
    /\ UNCHANGED <<proc, vars, wvars>>

\* The wait of task c is over: it looks the address up again, or gives up
\* when the engine is not connected any more.
WakeUp(c) ==
    /\ task[c].pc = "wait"
    /\ \/ Hits(task[c].request.address) # {}
       \/ ~InFlight(task[c].request.address) /\ ~LoadInFlight
    /\ IF client.conn = "Connected" \/ Hits(task[c].request.address) # {}
       THEN Lookup(c, task[c].request.address)
       ELSE task' = [task EXCEPT ![c] = IdleTask] /\ UNCHANGED client
    /\ UNCHANGED <<proc, vars, wvars>>

\* The tasks whose RPC is on the way to the engine and has not reached it.
SentAhead == {d \in Tasks : task[d].pc = "sent"}

\* Task c calls load_binary(request): the LoadBinary RPC is sent. (ahead
\* records which RPCs were on the way to the engine before it.)
LoadBinaryCall(c, in) ==
    /\ task[c].pc = "idle"
    /\ client.conn = "Connected"
    /\ ~LoadInFlight
    /\ proc.sessions < MaxSessions
    /\ \E bytes \in in.binaries, base \in in.bases, spec \in in.arch_specs :
          task' = [task EXCEPT ![c] =
                     Sent(c, "load_binary",
                          [binary_content |-> bytes, base_address |-> base, arch_spec |-> spec])
                        @@ [ahead |-> SentAhead]]
    /\ UNCHANGED <<proc, client, vars, wvars>>

\* Task c calls disassemble_range(start, end): the DisassembleRange RPC is
\* sent once no LoadBinary is in flight.
DisassembleCall(c, in) ==
    /\ task[c].pc = "idle"
    /\ client.conn = "Connected"
    /\ ~LoadInFlight
    /\ \E range \in in.ranges :
          task' = [task EXCEPT ![c] =
                     Sent(c, "disassemble_range", [start |-> range[1], end |-> range[2]])]
    /\ UNCHANGED <<proc, client, vars, wvars>>

\* The engine runs the DisassembleRange handler for the RPC of task c.
EngineDisassemble(c) ==
    /\ task[c].pc = "sent" /\ task[c].op = "disassemble_range"
    /\ LET r == DisassembleRange(svc, task[c].request)
       IN  /\ svc' = r.svc
           /\ task' = [task EXCEPT ![c] =
                         [pc |-> "answered", op |-> task[c].op, request |-> task[c].request,
                          tag |-> task[c].tag, reply |-> r.reply,
                          against |-> EngineSession(svc, proc)]]
    /\ UNCHANGED <<mu_, pc, call, proc, client, wvars>>

\* The response of the DisassembleRange RPC of task c arrives and is returned.
ReceiveDisassembly(c) ==
    /\ task[c].pc = "answered" /\ task[c].op = "disassemble_range"
    /\ task' = [task EXCEPT ![c].pc = "have"]
    /\ UNCHANGED <<proc, client, vars, wvars>>

\* The engine runs the DecompileFunction handler for the RPC of task c.
EngineDecompile(c, in) ==
    /\ task[c].pc = "sent" /\ task[c].op = "get_or_compute"
    /\ \E fault \in in.decompile_faults :
          LET r == DecompileFunction(svc, task[c].request, fault)
          IN  /\ svc' = r.svc
              /\ task' = [task EXCEPT ![c] =
                            [pc |-> "answered", op |-> task[c].op, request |-> task[c].request,
                             tag |-> task[c].tag, reply |-> r.reply,
                             against |-> EngineSession(svc, proc)]]
    /\ UNCHANGED <<mu_, pc, call, proc, client, wvars>>

\* The engine runs the LoadBinary handler for the RPC of task c.
EngineLoad(c, in) ==
    /\ task[c].pc = "sent" /\ task[c].op = "load_binary"
    /\ \E fault \in in.load_faults :
          LET r == LoadBinary(svc, task[c].request, fault)
              created == IF r.reply.success THEN proc.sessions + 1 ELSE proc.sessions
          IN  /\ svc' = r.svc
              /\ proc' = [proc EXCEPT !.sessions = created]
              /\ task' = [task EXCEPT ![c] =
                            [pc |-> "answered", op |-> task[c].op, request |-> task[c].request,
                             tag |-> task[c].tag, reply |-> r.reply,
                             against |-> IF r.reply.success THEN created ELSE 0,
                             ahead |-> task[c].ahead]]
    /\ UNCHANGED <<mu_, pc, call, client, wvars>>

ReceiveResultUncached(c) ==
    /\ task[c].pc = "answered" /\ task[c].op = "get_or_compute"
    /\ task' = [task EXCEPT ![c].pc = "have"]
    /\ UNCHANGED <<proc, client, vars, wvars>>

\* The response of the DecompileFunction RPC of task c arrives: the result is
\* stored keyed by address, tagged with the session, and returned.
ReceiveResult(c) ==
    /\ task[c].pc = "answered" /\ task[c].op = "get_or_compute"
    /\ client' = [client EXCEPT !.cache =
                     {e \in @ : e.address # task[c].request.address}
                        \cup {[address |-> task[c].request.address, result |-> task[c].reply,
                               tag |-> task[c].tag, against |-> task[c].against]}]
    /\ task' = [task EXCEPT ![c].pc = "have"]
    /\ UNCHANGED <<proc, vars, wvars>>

\* The cache and the count of the RPCs sent since it was last cleared, after
\* a LoadBinary succeeded.
Invalidated(cl) ==
    [cl EXCEPT !.cache = {}, !.issued = [a \in ClientAddresses |-> 0]]

\* The response of the LoadBinary RPC of task c arrives: on success the
\* session is mirrored and the entire cache is cleared.
ReceiveLoaded(c) ==
    /\ task[c].pc = "answered" /\ task[c].op = "load_binary"
    /\ client' = IF task[c].reply.success
                 THEN [Invalidated(client) EXCEPT !.session = task[c].request,
                                                  !.epoch = task[c].against]
                 ELSE client
    /\ task' = [task EXCEPT ![c].pc = "have"]
    /\ UNCHANGED <<proc, vars, wvars>>

\* The RPC of task c fails with a TransportError: Connected -> Disconnected.
TransportError(c) ==
    /\ task[c].pc = "lost"
    /\ task' = [task EXCEPT ![c] = IdleTask]
    /\ client' = IF client.conn = "Connected"
                 THEN [client EXCEPT !.conn = "Disconnected", !.attempts = 0]
                 ELSE client
    /\ UNCHANGED <<proc, vars, wvars>>

\* The caller of task c has taken the result of its call.
Take(c) ==
    /\ task[c].pc = "have"
    /\ task' = [task EXCEPT ![c] = IdleTask]
    /\ UNCHANGED <<proc, client, vars, wvars>>

\* The engine process terminates: its state is gone and the RPCs that are
\* outstanding are lost with the connection.
Crash ==
    /\ proc.state = "up"
    /\ proc' = [proc EXCEPT !.state = "down"]
    /\ svc' = InitService
    /\ task' = [c \in Tasks |->
                  IF task[c].pc \in {"sent", "answered"}
                  THEN [task[c] EXCEPT !.pc = "lost"] ELSE task[c]]
    /\ UNCHANGED <<mu_, pc, call, client, wvars>>

\* The periodic health check times out: Connected -> Disconnected.
HealthCheck ==
    /\ client.conn = "Connected"
    /\ proc.state = "down"
    /\ client' = [client EXCEPT !.conn = "Disconnected", !.attempts = 0]
    /\ UNCHANGED <<proc, task, vars, wvars>>

ReconnectAttemptAfterFailed ==
    /\ client.conn \in {"Disconnected", "Failed"}
    /\ client.attempts < MaxReconnectAttempts
    /\ \E connected \in BOOLEAN :
          /\ proc' = IF connected THEN [proc EXCEPT !.state = "up"] ELSE proc
          /\ client' = [client EXCEPT !.attempts = @ + 1,
                           !.conn = IF connected THEN "Reconnecting" ELSE "Disconnected"]
    /\ UNCHANGED <<task, vars, wvars>>

ReconnectAttemptUncounted ==
    /\ client.conn = "Disconnected"
    /\ client.attempts < MaxReconnectAttempts
    /\ \E connected \in BOOLEAN :
          /\ proc' = IF connected THEN [proc EXCEPT !.state = "up"] ELSE proc
          /\ client' = [client EXCEPT
                           !.conn = IF connected THEN "Reconnecting" ELSE "Disconnected"]
    /\ UNCHANGED <<task, vars, wvars>>

\* One reconnect attempt (a fresh process-connect): Disconnected ->
\* Reconnecting when it succeeds.
ReconnectAttempt ==
    /\ client.conn = "Disconnected"
    /\ client.attempts < MaxReconnectAttempts
    /\ \E connected \in BOOLEAN :
          /\ proc' = IF connected THEN [proc EXCEPT !.state = "up"] ELSE proc
          /\ client' = [client EXCEPT !.attempts = @ + 1,
                           !.conn = IF connected THEN "Reconnecting" ELSE "Disconnected"]
    /\ UNCHANGED <<task, vars, wvars>>

\* The reconnect attempts are exhausted: Disconnected -> Failed.
GiveUp ==
    /\ client.conn = "Disconnected"
    /\ client.attempts >= MaxReconnectAttempts
    /\ client' = [client EXCEPT !.conn = "Failed"]
    /\ UNCHANGED <<proc, task, vars, wvars>>

ReconnectPingAlwaysReloads ==
    /\ client.conn = "Reconnecting"
    /\ client' =
          IF proc.state = "up" /\ Ping(svc, [ping |-> TRUE]).reply.alive
          THEN [client EXCEPT !.conn = "Reloading", !.replay = client.session]
          ELSE [client EXCEPT !.conn = "Disconnected"]
    /\ UNCHANGED <<proc, task, vars, wvars>>

ReconnectPingSkipsReload ==
    /\ client.conn = "Reconnecting"
    /\ client' =
          IF proc.state = "up" /\ Ping(svc, [ping |-> TRUE]).reply.alive
          THEN [Invalidated(client) EXCEPT !.conn = "Connected", !.attempts = 0]
          ELSE [client EXCEPT !.conn = "Disconnected"]
    /\ UNCHANGED <<proc, task, vars, wvars>>

\* The Ping of a reconnect attempt: when it succeeds, Reconnecting ->
\* Reloading if a prior BinarySession exists (its LoadBinary is replayed),
\* else Reconnecting -> Connected; when it fails the attempt has failed.
ReconnectPing ==
    /\ client.conn = "Reconnecting"
    /\ client' =
          IF proc.state = "up" /\ Ping(svc, [ping |-> TRUE]).reply.alive
          THEN IF client.session # NULL
               THEN [client EXCEPT !.conn = "Reloading", !.replay = client.session]
               ELSE [Invalidated(client) EXCEPT !.conn = "Connected", !.attempts = 0]
          ELSE [client EXCEPT !.conn = "Disconnected"]
    /\ UNCHANGED <<proc, task, vars, wvars>>

\* The LoadBinary replayed in Reloading completes: Reloading -> Connected
\* with the cache invalidated when it succeeds, Reloading -> Failed when it
\* fails (the engine answers success=false, or is gone).
Replay(in) ==
    /\ client.conn = "Reloading"
    /\ IF proc.state = "up"
       THEN \E fault \in in.load_faults :
               LET r == LoadBinary(svc, client.replay, fault)
               IN  /\ svc' = r.svc
                   /\ client' = IF r.reply.success
                                THEN [Invalidated(client) EXCEPT !.conn = "Connected",
                                                                 !.attempts = 0]
                                ELSE [client EXCEPT !.conn = "Failed"]
       ELSE /\ svc' = svc
            /\ client' = [client EXCEPT !.conn = "Failed"]
    /\ UNCHANGED <<mu_, pc, call, proc, task, wvars>>

NextCache ==
    \E c \in Tasks :
        \/ \E address \in CacheInputs.addresses : GetOrCompute(c, address)
        \/ WakeUp(c)
        \/ LoadBinaryCall(c, CacheInputs)
        \/ EngineDecompile(c, CacheInputs)
        \/ EngineLoad(c, CacheInputs)
        \/ ReceiveResult(c)
        \/ ReceiveLoaded(c)
        \/ Take(c)

NextClient ==
    \/ \E c \in Users :
        \/ \E address \in ClientInputs.addresses : GetOrCompute(c, address)
        \/ LoadBinaryCall(c, ClientInputs)
        \/ EngineDecompile(c, ClientInputs)
        \/ EngineLoad(c, ClientInputs)
        \/ ReceiveResult(c)
        \/ ReceiveLoaded(c)
        \/ TransportError(c)
        \/ Take(c)
    \/ Crash
    \/ HealthCheck
    \/ ReconnectAttempt
    \/ GiveUp
    \/ ReconnectPing
    \/ Replay(ClientInputs)

NextOrder ==
    \E c \in Tasks :
        \/ \E address \in OrderInputs.addresses : GetOrCompute(c, address)
        \/ WakeUp(c)
        \/ LoadBinaryCall(c, OrderInputs)
        \/ DisassembleCall(c, OrderInputs)
        \/ EngineDecompile(c, OrderInputs)
        \/ EngineLoad(c, OrderInputs)
        \/ EngineDisassemble(c)
        \/ ReceiveResult(c)
        \/ ReceiveLoaded(c)
        \/ ReceiveDisassembly(c)
        \/ Take(c)

\* All the variables.
allvars == <<vars, cvars, wvars>>

\* The tasks of the client, its cache and an engine process that stays up.
SpecCache == Init /\ [][NextCache]_allvars

\* The tasks of the client loading, decompiling and disassembling.
SpecOrder == Init /\ [][NextOrder]_allvars

\* The client and an engine process that may terminate.
SpecClient == Init /\ [][NextClient]_allvars

\* The steps of the session/reconnection state machine, which the client
\* takes on its own (timers of the health check and of the backoff, and the
\* completion of the calls it makes).
Reconnection ==
    HealthCheck \/ ReconnectAttempt \/ GiveUp \/ ReconnectPing \/ Replay(ClientInputs)

\* The same, where the state machine keeps taking its steps and a failed RPC
\* is reported to its task.
SpecClientFair ==
    /\ SpecClient
    /\ WF_allvars(Reconnection)
    /\ \A c \in Users : WF_allvars(TransportError(c))

(***************************************************************************)
(* The caller of the C wrapper: one thread that calls the functions of the *)
(* C ABI one after the other, with its handle and its buffer.              *)
(***************************************************************************)
\* The call returns or is left by an exception: what it leaves behind.
Outcome(fn, args, r) ==
    /\ g_last_error' = r.g_last_error
    /\ ffi' = [fn |-> fn, args |-> args, status |-> r.status,
               ret |-> IF r.status = "returned" THEN r.ret ELSE NULL]

\* The caller calls fission_decompiler_init(sla_dir) and keeps the handle.
CallInit(in) ==
    /\ decomp = NULL
    /\ \E sla_dir \in in.sla_dirs, fault \in in.faults :
          LET r == fission_decompiler_init(g_library_initialized, g_last_error, sla_dir, fault)
          IN  /\ Outcome("fission_decompiler_init", [sla_dir |-> sla_dir], r)
              /\ g_library_initialized' = r.g_library_initialized
              /\ decomp' = IF r.status = "returned" THEN r.ret ELSE NULL
    /\ out_buffer' = FreshBuffer
    /\ UNCHANGED <<vars, cvars, ivars, mvars>>

\* The caller calls fission_decompiler_destroy(decomp) and drops the handle.
CallDestroy ==
    /\ decomp # NULL
    /\ decomp' = NULL
    /\ ffi' = [fn |-> "fission_decompiler_destroy", args |-> [decomp |-> decomp],
               status |-> "returned", ret |-> NULL]
    /\ out_buffer' = FreshBuffer
    /\ UNCHANGED <<g_last_error, g_library_initialized, vars, cvars, ivars, mvars>>

\* The arguments the caller may pass: its handle or nullptr, machine code or
\* nullptr with the length of the code or 0, a fresh buffer or nullptr with
\* the length it states (at most the capacity).
Arguments(in) ==
    {[decomp |-> d, bytes |-> b, bytes_len |-> n, base_addr |-> a,
      out_buffer |-> o, out_len |-> l] :
        d \in {NULL, decomp}, b \in in.byte_seqs, n \in 0 .. MaxLen, a \in in.base_addrs,
        o \in {NULL, Ptr(FreshBuffer)}, l \in in.out_lens}

\* The arguments a C caller can pass: the lengths are those of the memory
\* the pointers point to.
WellFormed(args) ==
    /\ args.bytes_len \in {0, IF args.bytes = NULL THEN 0 ELSE Len(args.bytes.at)}
    /\ args.out_len <= BufLen

\* The caller calls fission_decompile.
CallDecompile(in) ==
    /\ \E args \in Arguments(in), fault \in in.faults :
          /\ WellFormed(args)
          /\ LET r == fission_decompile(g_last_error, args.decomp, args.bytes, args.bytes_len,
                                        args.base_addr, args.out_buffer, args.out_len, fault)
             IN  /\ Outcome("fission_decompile", args, r)
                 /\ out_buffer' = IF args.out_buffer = NULL THEN FreshBuffer ELSE r.out_buffer
    /\ UNCHANGED <<g_library_initialized, decomp, vars, cvars, ivars, mvars>>

\* The caller calls fission_disassemble.
CallDisassemble(in) ==
    /\ \E args \in Arguments(in), fault \in in.faults :
          /\ WellFormed(args)
          /\ LET r == fission_disassemble(g_last_error, args.decomp, args.bytes, args.bytes_len,
                                          args.base_addr, args.out_buffer, args.out_len, fault)
             IN  /\ Outcome("fission_disassemble", args, r)
                 /\ out_buffer' = IF args.out_buffer = NULL THEN FreshBuffer ELSE r.out_buffer
    /\ UNCHANGED <<g_library_initialized, decomp, vars, cvars, ivars, mvars>>

\* The caller calls fission_get_error.
CallGetError ==
    /\ ffi' = [fn |-> "fission_get_error", args |-> NULL, status |-> "returned",
               ret |-> fission_get_error(g_last_error)]
    /\ out_buffer' = FreshBuffer
    /\ UNCHANGED <<g_last_error, g_library_initialized, decomp, vars, cvars, ivars, mvars>>

NextWrapper ==
    \/ CallInit(WrapperInputs)
    \/ CallDestroy
    \/ CallDecompile(WrapperInputs)
    \/ CallDisassemble(WrapperInputs)
    \/ CallGetError

\* The C wrapper called by one thread.
SpecWrapper == Init /\ [][NextWrapper]_allvars

(***************************************************************************)
(* The callers of fission_decompiler_init and fission_is_available: threads *)
(* of the host program that run the two functions statement by statement.  *)
(***************************************************************************)
\* What the steps of the callers leave alone.
InitFrame == UNCHANGED <<g_last_error, decomp, out_buffer, ffi, vars, cvars, mvars>>

\* Thread t has returned from its call (or an exception has left it).
Leaves(t, status, ret, error) ==
    [pc |-> "done", fn |-> caller[t].fn, status |-> status, ret |-> ret, g_last_error |-> error]

\* Thread t calls fission_decompiler_init(sla_dir): nullptr is rejected before
\* ensureLibraryInitialized is called.
InitCall(t, in) ==
    /\ caller[t].pc = "idle"
    /\ \E sla_dir \in in.sla_dirs :
          caller' = [caller EXCEPT ![t] =
              IF sla_dir = NULL
              THEN [pc |-> "done", fn |-> "fission_decompiler_init", status |-> "returned",
                    ret |-> NULL, g_last_error |-> <<"sla_dir is null">>]
              ELSE [pc |-> "lock", fn |-> "fission_decompiler_init", sla_dir |-> sla_dir,
                    g_last_error |-> caller[t].g_last_error]]
    /\ UNCHANGED <<g_library_initialized, g_init_mutex, startups>>
    /\ InitFrame

\* std::lock_guard<std::mutex> lock(g_init_mutex): t waits until it is free.
InitLock(t) ==
    /\ caller[t].pc = "lock"
    /\ g_init_mutex = 0
    /\ g_init_mutex' = t
    /\ caller' = [caller EXCEPT ![t].pc = "check"]
    /\ UNCHANGED <<g_library_initialized, startups>>
    /\ InitFrame

\* if (g_library_initialized) return true; the lock is released on return.
InitCheck(t) ==
    /\ caller[t].pc = "check"
    /\ IF g_library_initialized
       THEN /\ caller' = [caller EXCEPT ![t].pc = "create"]
            /\ g_init_mutex' = IF g_init_mutex = t THEN 0 ELSE g_init_mutex
       ELSE /\ caller' = [caller EXCEPT ![t].pc = "start"]
            /\ g_init_mutex' = g_init_mutex
    /\ UNCHANGED <<g_library_initialized, startups>>
    /\ InitFrame

\* startDecompilerLibrary(paths): it completes, or throws; a std::exception
\* is caught (message stored, false returned, so that
\* fission_decompiler_init returns nullptr), any other exception leaves
\* both functions. The lock is released on either way out.
InitStart(t, in) ==
    /\ caller[t].pc = "start"
    /\ \E fault \in in.faults :
          LET e == ensureLibraryInitialized(FALSE, caller[t].g_last_error,
                                            caller[t].sla_dir, fault)
          IN  IF e.status = "returned" /\ e.ret
              THEN /\ caller' = [caller EXCEPT ![t].pc = "set"]
                   /\ startups' = [startups EXCEPT !.completed = @ + 1]
                   /\ g_init_mutex' = g_init_mutex
              ELSE /\ caller' = [caller EXCEPT ![t] =
                          IF e.status = "returned"
                          THEN Leaves(t, "returned", NULL, e.g_last_error)
                          ELSE Leaves(t, "EXCEPTION", NULL, e.g_last_error)]
                   /\ startups' = startups
                   /\ g_init_mutex' = IF g_init_mutex = t THEN 0 ELSE g_init_mutex
    /\ UNCHANGED g_library_initialized
    /\ InitFrame

\* g_library_initialized = true; return true; the lock is released on return.
InitSet(t) ==
    /\ caller[t].pc = "set"
    /\ g_library_initialized' = TRUE
    /\ g_init_mutex' = IF g_init_mutex = t THEN 0 ELSE g_init_mutex
    /\ caller' = [caller EXCEPT ![t].pc = "create"]
    /\ UNCHANGED startups
    /\ InitFrame

\* decomp = new FissionDecompiler(); decomp->sla_dir = sla_dir;
\* decomp->initialized = true; return decomp.
InitCreate(t) ==
    /\ caller[t].pc = "create"
    /\ caller' = [caller EXCEPT ![t] =
          Leaves(t, "returned", [sla_dir |-> caller[t].sla_dir.at, initialized |-> TRUE],
                 caller[t].g_last_error)]
    /\ UNCHANGED <<g_library_initialized, g_init_mutex, startups>>
    /\ InitFrame

\* Thread t calls fission_is_available().
AvailableCall(t) ==
    /\ caller[t].pc = "idle"
    /\ caller' = [caller EXCEPT ![t] =
          [pc |-> "available", fn |-> "fission_is_available",
           g_last_error |-> caller[t].g_last_error]]
    /\ UNCHANGED <<g_library_initialized, g_init_mutex, startups>>
    /\ InitFrame

\* Another thread is at its write of g_library_initialized: a read by t, which
\* holds no lock, races with it.
Races(t) == \E u \in Callers \ {t} : caller[u].pc = "set"

\* return g_library_initialized ? 1 : 0; a read that races with the write
\* yields either value.
AvailableRead(t) ==
    /\ caller[t].pc = "available"
    /\ \E ret \in IF Races(t) THEN {0, 1} ELSE {fission_is_available(g_library_initialized)} :
          /\ caller' = [caller EXCEPT ![t] =
                 Leaves(t, "returned", ret, caller[t].g_last_error)]
          /\ startups' = [startups EXCEPT !.available = @ \/ ret = 1]
    /\ UNCHANGED <<g_library_initialized, g_init_mutex>>
    /\ InitFrame

\* The host program has taken what the call of thread t returned.
CallerReturn(t) ==
    /\ caller[t].pc = "done"
    /\ caller' = [caller EXCEPT ![t] = IdleCaller(caller[t].g_last_error)]
    /\ UNCHANGED <<g_library_initialized, g_init_mutex, startups>>
    /\ InitFrame

NextInit ==
    \E t \in Callers :
        \/ InitCall(t, WrapperInputs)
        \/ InitLock(t)
        \/ InitCheck(t)
        \/ InitStart(t, WrapperInputs)
        \/ InitSet(t)
        \/ InitCreate(t)
        \/ AvailableCall(t)
        \/ AvailableRead(t)
        \/ CallerReturn(t)

\* The C wrapper's initialisation called by the threads of Callers.
SpecInit == Init /\ [][NextInit]_allvars

(***************************************************************************)
(* The two memory image adapters, built on the same buffer and base        *)
(* address and asked for the same bytes.                                   *)
(***************************************************************************)
\* Every service, client and wrapper variable as after construction, and a
\* buffer mapped at a base address drawn from the inputs.
InitImage ==
    /\ svc = InitService
    /\ mu_ = 0
    /\ pc = [t \in Workers |-> "idle"]
    /\ call = [t \in Workers |-> NoCall]
    /\ InitClientSide
    /\ InitWrapper
    /\ image \in [data : ImageInputs.buffers, base : ImageInputs.bases]
    /\ fill = NoFill

\* loadFill(ptr, size, addr) of the MemoryLoadImage of the gRPC server and of
\* the BufferLoadImage of the C wrapper, each built on the image.
ReadBoth(in) ==
    /\ \E address \in in.addresses, size \in in.sizes :
          fill' = [read |-> TRUE, address |-> address, size |-> size,
                   memory |-> loadFill(MemoryLoadImage(image.data, image.base), size, address),
                   buffer |-> BufferLoadImage_loadFill(
                                 BufferLoadImage(image.data, Len(image.data), image.base),
                                 size, address)]
    /\ UNCHANGED <<image, vars, cvars, g_last_error, g_library_initialized, decomp,
                   out_buffer, ffi, ivars>>

NextImage == ReadBoth(ImageInputs)

\* Reads of the two memory image adapters.
SpecImage == InitImage /\ [][NextImage]_allvars

(***************************************************************************)
(* Vocabulary of the properties.                                           *)
(***************************************************************************)
\* Thread t has finished a call of handler rpc; call[t] holds what it answered.
Done(t, rpc) == pc[t] = "done" /\ call[t].rpc = rpc

\* This step is the body of handler rpc run by thread t, to its return.
Returns(t, rpc) == pc[t] = "body" /\ call[t].rpc = rpc /\ pc'[t] = "done"

\* The engine state Loaded, and the engine state Uninitialized.
Loaded(s) == s.initialized /\ s.arch # NULL /\ s.loader # NULL
Uninitialized(s) == ~s.initialized /\ s.arch = NULL /\ s.loader = NULL

\* The sum of the lengths of instructions lo .. hi of a block.
RECURSIVE SumLengths(_, _, _)
SumLengths(instrs, lo, hi) ==
    IF lo > hi THEN 0
    ELSE IF lo = hi THEN instrs[lo].length
    ELSE LET mid == (lo + hi) \div 2
         IN  SumLengths(instrs, lo, mid) + SumLengths(instrs, mid + 1, hi)

\* The blocks of a DecompileFunction response.
BlocksOf(reply) == {reply.blocks[i] : i \in 1 .. Len(reply.blocks)}

(***************************************************************************)
(* Properties of the basic block builder.                                  *)
(***************************************************************************)
\* C1: every DecompileFunction call returns, and no basic block of a response
\* holds more than the cap of MAX_INSTRS (200) instructions, whatever the
\* decoder answers (also when it never answers a terminating mnemonic).
C1_BlockWithinCap ==
    \A t \in Threads :
        Done(t, "DecompileFunction") =>
            /\ call[t].status # "NO_RETURN"
            /\ \A b \in BlocksOf(call[t].reply) : Len(b.instructions) <= MAX_INSTRS

\* A sweep that ran into the cap: a block of exactly MAX_INSTRS instructions.
C1_Witness ==
    \E t \in Threads :
        /\ Done(t, "DecompileFunction")
        /\ call[t].reply.success
        /\ \E b \in BlocksOf(call[t].reply) : Len(b.instructions) = MAX_INSTRS

\* C2: in every successful DecompileFunction response, whichever condition
\* ended the sweep, the block's end_addr is its start_addr plus the sum of
\* the lengths of the instructions it holds (in address arithmetic).
C2_EndAddrIsStartPlusLengths ==
    \A t \in Threads :
        Done(t, "DecompileFunction") /\ call[t].reply.success =>
            \A b \in BlocksOf(call[t].reply) :
                b.end_addr =
                    (b.start_addr + SumLengths(b.instructions, 1, Len(b.instructions))) % AddrMod

(***************************************************************************)
(* Properties of the handlers' error paths.                                *)
(***************************************************************************)
\* What C3 says of a DecompileFunction step taken while the engine is not
\* Loaded, for the error message msg.
NotLoadedDecompile(msg) ==
    \A t \in Threads :
        Returns(t, "DecompileFunction") /\ ~Loaded(svc) =>
            /\ call'[t].status = "OK"
            /\ call'[t].reply.success = FALSE
            /\ call'[t].reply.error_message = msg
            /\ call'[t].reply.blocks = <<>>
            /\ svc' = svc

\* C3 (as amended): DecompileFunction called while the engine is not Loaded
\* (never loaded, or after a failed LoadBinary) returns success=false with
\* the error message "Binary not loaded", returns no blocks, and leaves the
\* engine state unchanged.
C3_NotLoadedDecompile == [][NotLoadedDecompile("Binary not loaded")]_vars

\* C3 as stated: the same, with the error message "binary not loaded".
C3_Original == [][NotLoadedDecompile("binary not loaded")]_vars

\* DecompileFunction answered after a LoadBinary that failed (only a failed
\* LoadBinary leaves a base address in an engine that is not Loaded).
C3_Witness ==
    \E t \in Threads :
        /\ Done(t, "DecompileFunction")
        /\ ~Loaded(svc)
        /\ svc.base_address # 0
        /\ ~call[t].reply.success

\* C4: after any LoadBinary call that returns success=false, whatever the
\* engine state was before the call, the engine is Uninitialized: it holds no
\* loader and no architecture, of the old binary or of the new one.
C4_FailedLoadLeavesUninitialized ==
    [][\A t \in Threads :
          Returns(t, "LoadBinary") /\ ~call'[t].reply.success => Uninitialized(svc')]_vars

\* A LoadBinary that failed after another one had succeeded: one thread holds
\* the answer of a successful LoadBinary, the other the answer of a failed
\* one, and the engine is Uninitialized (so the failed one ran last, on a
\* Loaded engine).
C4_Witness ==
    \E t \in Threads, u \in Threads :
        /\ Done(t, "LoadBinary") /\ ~call[t].reply.success
        /\ Done(u, "LoadBinary") /\ call[u].reply.success
        /\ call[u].request.binary_content # <<>>
        /\ Uninitialized(svc)

\* C5: LoadBinary with zero-length bytes fails (success=false with an error
\* message) and leaves the engine Uninitialized.
C5_EmptyBinaryRejected ==
    \A t \in Threads :
        Done(t, "LoadBinary") /\ call[t].request.binary_content = <<>> =>
            /\ ~call[t].reply.success
            /\ call[t].reply.error_message # ""
            /\ Uninitialized(svc)

(***************************************************************************)
(* Properties of the service mutex.                                        *)
(***************************************************************************)
\* The threads running the body of a handler, and those of them whose
\* handler takes the service mutex.
InBody == {t \in Threads : pc[t] = "body"}
InLockedBody == {t \in InBody : call[t].rpc \in LockingHandlers}

\* C6 as stated: all four handlers run under the service mutex, so at most
\* one handler body is executing at any time.
C6_Original == Cardinality(InBody) <= 1

\* C6 (as amended): LoadBinary and DecompileFunction run under the service
\* mutex: at most one body of these two handlers is executing at any time, and
\* the thread executing it holds mu_. (Ping and DisassembleRange take no lock.)
C6_LockingHandlersExclusive ==
    /\ Cardinality(InLockedBody) <= 1
    /\ \A t \in InLockedBody : mu_ = t

\* One thread analyses a function while the other waits for the mutex with a
\* LoadBinary.
C6_Witness ==
    \E t \in Threads, u \in Threads :
        /\ pc[t] = "body" /\ call[t].rpc = "DecompileFunction"
        /\ pc[u] = "lock" /\ call[u].rpc = "LoadBinary"
        /\ mu_ = t

(***************************************************************************)
(* Properties of the handlers' exception handling.                         *)
(***************************************************************************)
\* Both states hold the same session: loader, base address and language.
SameSession(s1, s2) ==
    /\ s1.loader = s2.loader
    /\ s1.base_address = s2.base_address
    /\ s1.arch.sleigh_id = s2.arch.sleigh_id
    /\ s1.arch.custom_loader = s2.arch.custom_loader

\* C7: when the engine throws during a DecompileFunction, the call returns
\* success=false with an error message and the engine stays Loaded with the
\* same session; and every DecompileFunction on a Loaded engine is served
\* against the session (never answered "Binary not loaded"), so a later call
\* for another address still is.
C7_AnalysisErrorKeepsSession ==
    [][\A t \in Threads :
          Returns(t, "DecompileFunction") /\ Loaded(svc) =>
              /\ Loaded(svc') /\ SameSession(svc, svc')
              /\ call'[t].reply.error_message # "Binary not loaded"
              /\ call'[t].reply.success =>
                    call'[t].reply.c_code[5] = svc.loader.data_
              /\ call'[t].caught # "none" =>
                    /\ call'[t].status = "OK"
                    /\ ~call'[t].reply.success
                    /\ call'[t].reply.error_message # ""]_vars

\* The analysis of address 0 threw, the engine is still Loaded, and a function
\* record of another address exists in the session.
C7_Witness ==
    \E t \in Threads :
        /\ Done(t, "DecompileFunction")
        /\ call[t].caught = "LowlevelError"
        /\ call[t].request.address = 0
        /\ Loaded(svc)
        /\ \E f \in svc.arch.symboltab : f.address # 0

\* C8: LoadBinary and DecompileFunction always return a structured response
\* (status OK): no exception leaves the handler; and whenever the engine
\* threw, whatever the kind of the exception, the response has success=false
\* and a non-empty error message.
C8_NoExceptionEscapes ==
    \A t \in Threads :
        Done(t, "LoadBinary") \/ Done(t, "DecompileFunction") =>
            /\ call[t].status = "OK"
            /\ call[t].caught # "none" =>
                  ~call[t].reply.success /\ call[t].reply.error_message # ""

\* The handlers have answered an exception that is neither a LowlevelError
\* nor a std::exception.
C8_Witness ==
    \E t \in Threads :
        /\ Done(t, "LoadBinary") \/ Done(t, "DecompileFunction")
        /\ call[t].caught = "unknown"
        /\ call[t].reply.error_message # ""

(***************************************************************************)
(* Properties of DisassembleRange.                                         *)
(***************************************************************************)
\* C9: DisassembleRange on an engine with no loaded binary returns
\* success=false with a non-empty error message and an empty instruction list.
C9_DisassembleNotLoaded ==
    [][\A t \in Threads :
          Returns(t, "DisassembleRange") /\ ~Loaded(svc) =>
              /\ ~call'[t].reply.success
              /\ call'[t].reply.error_message # ""
              /\ call'[t].reply.instructions = <<>>]_vars

\* The decoder decodes an instruction at address of the loaded image.
Decodable(s, address) ==
    LET emit == printAssembly(s.loader, address)
    IN  emit.thrown = "none" /\ emit.length > 0

\* C10: DisassembleRange(start, end) on a Loaded engine returns the flat
\* sequence of instructions covering [start, end): non-empty when start < end
\* and the bytes at start decode, the first instruction at start, each next
\* one at the previous address plus the previous length, the last one
\* reaching end.
C10_DisassembleCoversRange ==
    [][\A t \in Threads :
          /\ Returns(t, "DisassembleRange") /\ Loaded(svc)
          /\ call'[t].request.start < call'[t].request.end
          /\ Decodable(svc, call'[t].request.start)
          => LET instrs == call'[t].reply.instructions
                 n == Len(instrs)
             IN  /\ n > 0
                 /\ instrs[1].address = call'[t].request.start
                 /\ \A i \in 1 .. (n - 1) :
                       instrs[i + 1].address = (instrs[i].address + instrs[i].length) % AddrMod
                 /\ instrs[n].address + instrs[n].length >= call'[t].request.end]_vars

(***************************************************************************)
(* Properties of Ping, of the replacement of a session and of the memory   *)
(* image.                                                                  *)
(***************************************************************************)
\* C11: Ping has no side effects and answers alive=true in every engine
\* state: loader, architecture, base address and initialized flag are the
\* same before and after any Ping.
C11_PingHasNoSideEffects ==
    [][\A t \in Threads :
          Returns(t, "Ping") =>
              /\ svc' = svc
              /\ call'[t].status = "OK"
              /\ call'[t].reply.alive = TRUE]_vars

\* A Ping answered after a LoadBinary that failed (the engine is not Loaded
\* and holds the base address of the failed request).
C11_Witness ==
    \E t \in Threads :
        /\ Done(t, "Ping")
        /\ call[t].reply.alive
        /\ Uninitialized(svc)
        /\ svc.base_address # 0

\* C12: a successful LoadBinary replaces the session wholesale: after it the
\* engine holds exactly the loader, base address and architecture built from
\* the request, with no function record; and every successful
\* DecompileFunction is answered from the bytes, base address and language of
\* the session the engine holds, each instruction decoded from its image.
C12_LoadReplacesSession ==
    [][\A t \in Threads :
          /\ Returns(t, "LoadBinary") /\ call'[t].reply.success =>
                LET request == call'[t].request
                    ldr == MemoryLoadImage(request.binary_content, request.base_address)
                IN  /\ svc'.loader = ldr
                    /\ svc'.base_address = request.base_address
                    /\ svc'.arch.custom_loader = ldr
                    /\ svc'.arch.sleigh_id = LanguageId(request.arch_spec)
                    /\ svc'.arch.symboltab = {}
                    /\ svc'.initialized
          /\ Returns(t, "DecompileFunction") /\ call'[t].reply.success =>
                /\ call'[t].reply.c_code[3] = svc.arch.sleigh_id
                /\ call'[t].reply.c_code[4] = svc.base_address
                /\ call'[t].reply.c_code[5] = svc.loader.data_
                /\ \A b \in BlocksOf(call'[t].reply) :
                      \A i \in 1 .. Len(b.instructions) :
                          b.instructions[i].mnemonic =
                              printAssembly(svc.loader, b.instructions[i].address).mnem]_vars

\* A LoadBinary has succeeded after a function of another binary had been
\* decompiled: one thread holds the C code of a function of the empty binary,
\* the other the answer of a successful LoadBinary of a non-empty one, and the
\* engine holds the non-empty binary and no function record.
C12_Witness ==
    \E t \in Threads, u \in Threads :
        /\ Done(t, "LoadBinary") /\ call[t].reply.success
        /\ call[t].request.binary_content # <<>>
        /\ Done(u, "DecompileFunction") /\ call[u].reply.success
        /\ call[u].reply.c_code[5] = <<>>
        /\ Loaded(svc)
        /\ svc.loader.data_ = call[t].request.binary_content
        /\ svc.arch.symboltab = {}

\* C13: a read of the memory image returns, for every byte position p in
\* [address, address+length), buffer[p - base_address] when p lies in
\* [base_address, base_address+len(buffer)) and 0 otherwise, decided per
\* byte; it always returns length bytes (never an error).
C13_ReadIsPerByte ==
    svc.loader # NULL =>
        \A address \in Addresses, length \in 0 .. (MaxLen + 1) :
            LET img == svc.loader
                got == loadFill(img, length, address)
            IN  /\ Len(got) = length
                /\ \A i \in 0 .. (length - 1) :
                      LET p == address + i
                      IN  p < AddrMod =>
                             got[i + 1] =
                                IF p >= img.base_addr_ /\ p < img.base_addr_ + Len(img.data_)
                                THEN img.data_[p - img.base_addr_ + 1]
                                ELSE 0

\* C14: in every successful DecompileFunction response the entry block's id
\* equals its start address, which equals the requested function address.
C14_EntryBlockIdIsStart ==
    \A t \in Threads :
        Done(t, "DecompileFunction") /\ call[t].reply.success =>
            /\ Len(call[t].reply.blocks) >= 1
            /\ call[t].reply.blocks[1].id = call[t].reply.blocks[1].start_addr
            /\ call[t].reply.blocks[1].start_addr = call[t].request.address

\* A successful response for a function at the highest address.
C14_Witness ==
    \E t \in Threads :
        /\ Done(t, "DecompileFunction") /\ call[t].reply.success
        /\ call[t].request.address = AddrMod - 1
        /\ call[t].reply.blocks[1].id = AddrMod - 1

\* C15: LoadBinary with an empty arch_spec behaves exactly as LoadBinary with
\* "x86:LE:64:default": for the same bytes, base address and behaviour of the
\* engine, the resulting session state and response are the same.
C15_EmptyArchSpecIsDefault ==
    [][\A t \in Threads :
          Returns(t, "LoadBinary") /\ call'[t].request.arch_spec = "" =>
              LET request == call'[t].request
                  baseline == [request EXCEPT !.arch_spec = "x86:LE:64:default"]
                  answer == [svc |-> svc', status |-> call'[t].status,
                             caught |-> call'[t].caught, reply |-> call'[t].reply]
              IN  /\ \A fault \in LoadFaults :
                        LoadBinary(svc, request, fault) = LoadBinary(svc, baseline, fault)
                  /\ \E fault \in LoadFaults : answer = LoadBinary(svc, baseline, fault)]_vars

\* A LoadBinary with an empty arch_spec has succeeded and the engine holds an
\* architecture of the baseline language.
C15_Witness ==
    \E t \in Threads :
        /\ Done(t, "LoadBinary") /\ call[t].reply.success
        /\ call[t].request.arch_spec = ""
        /\ Loaded(svc)
        /\ svc.arch.sleigh_id = "x86:LE:64:default"

(***************************************************************************)
(* Properties of the result cache.                                         *)
(***************************************************************************)
\* The tasks whose DecompileFunction RPC for address is outstanding.
OutstandingFor(address) ==
    {d \in Outstanding : task[d].op = "get_or_compute" /\ task[d].request.address = address}

\* This step is task c calling get_or_compute(address).
Calls(c, address) ==
    /\ task[c].pc = "idle"
    /\ task'[c].pc # "idle"
    /\ task'[c].op = "get_or_compute"
    /\ task'[c].request.address = address

\* This step is get_or_compute returning a result to task c.
ReturnsResult(c) ==
    /\ task[c].pc # "have"
    /\ task'[c].pc = "have"
    /\ task'[c].op = "get_or_compute"

\* C16: single-flight. At most one DecompileFunction RPC per address is
\* outstanding at any time, and at most one is sent for an address between
\* two invalidations of the cache, however many tasks call; a task that calls get_or_compute(A) while the RPC
\* for A is outstanding sends no RPC and, unless the cache answers it, waits;
\* and a task that waited returns the result the RPC stored in the cache.
C16_SingleFlight ==
    [][\A c \in Tasks :
          /\ \A address \in ClientAddresses :
                /\ Cardinality(OutstandingFor(address)') <= 1
                /\ client'.issued[address] <= 1
                /\ Calls(c, address) /\ InFlight(address) =>
                      /\ client'.issued = client.issued
                      /\ task'[c].pc \in {"wait", "have"}
                      /\ Hits(address) = {} => task'[c].pc = "wait"
          /\ task[c].pc \in {"answered", "wait"} /\ ReturnsResult(c) =>
                \E e \in client'.cache :
                    /\ e.address = task'[c].request.address
                    /\ e.result = task'[c].reply
                    /\ e.against = task'[c].against]_allvars

\* Two tasks have called get_or_compute for the same address, one RPC was
\* sent for it: the engine has answered the RPC of the one, the other waits.
C16_Witness ==
    \E c \in Tasks, d \in Tasks :
        /\ task[c].pc = "wait" /\ task[d].pc = "answered"
        /\ task[d].op = "get_or_compute"
        /\ task[c].request.address = task[d].request.address
        /\ client.issued[task[d].request.address] = 1
        /\ ~LoadInFlight

\* This step is the response of a successful LoadBinary arriving at task c.
LoadSucceeds(c) ==
    /\ task[c].pc = "answered" /\ task[c].op = "load_binary"
    /\ task[c].reply.success
    /\ task'[c].pc = "have"

\* The result get_or_compute returns to task c in this step was not computed
\* against a session earlier than the current one.
NotOfEarlierSession(c) ==
    task'[c].against # 0 => task'[c].against >= client'.epoch

\* What C17 says of every step: a successful LoadBinary leaves the cache
\* empty and with no entry to answer from, and no result computed against an
\* earlier session is returned.
CacheInvalidatedByLoad(c) ==
    /\ LoadSucceeds(c) =>
          /\ client'.cache = {}
          /\ client'.epoch > client.epoch
          /\ \A address \in ClientAddresses : client'.issued[address] = 0
    /\ \A address \in ClientAddresses :
          Calls(c, address) /\ (\A e \in client.cache : e.tag # client.epoch) =>
              task'[c].pc # "have"

C18_SecondCallIsAnsweredFromCache ==
    [][\A c \in Tasks :
          /\ ReturnsResult(c) /\ task[c].pc = "answered" =>
                \E e \in client'.cache :
                    /\ e.address = task[c].request.address
                    /\ e.result = task'[c].reply
                    /\ e.tag = task[c].tag
          /\ \A e1 \in client'.cache, e2 \in client'.cache :
                e1.address = e2.address => e1 = e2
          /\ \A address \in ClientAddresses :
                /\ client'.issued[address] <= 1
                /\ client'.issued[address] = 1 /\ OutstandingFor(address)' = {} =>
                      \E e \in client'.cache : e.address = address /\ e.tag = client'.epoch
                /\ \A e \in client.cache :
                      Calls(c, address) /\ e.address = address /\ e.tag = client.epoch =>
                          /\ task'[c].pc = "have"
                          /\ task'[c].reply = e.result
                          /\ client' = client]_allvars

\* Two calls for one address have returned the same successful result, which
\* is the one stored in the cache, and one RPC was sent for the address.
C18_Witness ==
    \E c \in Tasks, d \in Tasks, e \in client.cache :
        /\ c # d
        /\ task[c].pc = "have" /\ task[c].op = "get_or_compute"
        /\ task[d].pc = "have" /\ task[d].op = "get_or_compute"
        /\ task[c].request.address = e.address /\ task[d].request.address = e.address
        /\ task[c].reply = e.result /\ task[d].reply = e.result
        /\ e.result.success /\ e.tag = client.epoch
        /\ client.issued[e.address] = 1

(***************************************************************************)
(* Properties of the session/reconnection state machine.                   *)
(***************************************************************************)
\* The state machine goes from state a to state b in this step.
Goes(a, b) == client.conn = a /\ client'.conn = b

\* The transitions of the state machine while a binary is loaded.
TransitionsWhenLoaded ==
    {<<"Connected", "Disconnected">>,
     <<"Disconnected", "Reconnecting">>, <<"Disconnected", "Failed">>,
     <<"Reconnecting", "Reloading">>, <<"Reconnecting", "Disconnected">>,
     <<"Reloading", "Connected">>, <<"Reloading", "Failed">>}

\* C19: when the engine process terminates while a binary is loaded, the
\* state machine leaves Connected for Disconnected and comes back to
\* Connected only through Disconnected -> Reconnecting -> Reloading ->
\* Connected; the LoadBinary replayed in Reloading carries the bytes,
\* base_address and arch_spec of the last successfully loaded binary, the
\* engine holds that binary when Connected is entered, and no step of the way
\* is a step of a task of the user.
C19_ReconnectReloadsLastBinary ==
    [][/\ client.session # NULL /\ client'.conn # client.conn =>
             <<client.conn, client'.conn>> \in TransitionsWhenLoaded
       /\ \A c \in Tasks :
             /\ LoadSucceeds(c) => client'.session = task[c].request
             /\ task[c].pc = "answered" /\ ~task[c].reply.success /\ task'[c].pc = "have" =>
                   client'.session = client.session
       /\ client.conn \in {"Disconnected", "Reconnecting", "Reloading"} =>
             /\ client'.session = client.session
             /\ client'.conn # client.conn => task' = task
       /\ Goes("Connected", "Disconnected") =>
             proc.state = "down" \/ \E c \in Tasks : task[c].pc = "lost"
       /\ Goes("Reconnecting", "Reloading") => client'.replay = client.session
       /\ Goes("Reloading", "Connected") =>
             /\ client.replay = client.session
             /\ svc'.initialized
             /\ svc'.loader = MemoryLoadImage(client.session.binary_content,
                                              client.session.base_address)
             /\ svc'.base_address = client.session.base_address
             /\ svc'.arch.sleigh_id = LanguageId(client.session.arch_spec)]_allvars

\* The client is Connected again after a replay of the second binary the user
\* had loaded, and the engine holds that binary.
C19_Witness ==
    /\ client.conn = "Connected"
    /\ client.epoch = 2
    /\ client.replay # NULL /\ client.replay = client.session
    /\ proc.state = "up"
    /\ Loaded(svc)
    /\ svc.loader.data_ = client.session.binary_content

\* C20: reconnection is bounded: every reconnect attempt is counted, the
\* count never exceeds the configured number of attempts, and from
\* Disconnected the state machine eventually reaches Connected or Failed.
C20_ReconnectionIsBounded ==
    /\ [](client.attempts <= MaxReconnectAttempts)
    /\ [][Goes("Disconnected", "Reconnecting") \/ Goes("Disconnected", "Disconnected")
             => client'.attempts = client.attempts + 1 \/ client' = client]_allvars
    /\ (client.conn = "Disconnected") ~> (client.conn \in {"Connected", "Failed"})

\* The reconnect attempts are exhausted with the engine process still gone:
\* the state machine is in Failed.
C20_Witness ==
    /\ client.conn = "Failed"
    /\ client.attempts = MaxReconnectAttempts
    /\ proc.state = "down"

\* C21: Failed is a terminal state of the reconnection state machine. It is
\* entered only from Disconnected with the reconnect attempts exhausted or
\* from Reloading with the replay failed; once in it the state machine stays
\* in it, makes no reconnect attempt (no attempt is counted, the engine
\* process is not started), no task sends an RPC and the engine runs no
\* handler.
C21_FailedIsTerminal ==
    [][/\ client.conn # "Failed" /\ client'.conn = "Failed" =>
             \/ client.conn = "Disconnected" /\ client.attempts >= MaxReconnectAttempts
             \/ client.conn = "Reloading" /\ ~Loaded(svc')
       /\ client.conn = "Failed" =>
             /\ client'.conn = "Failed"
             /\ client'.attempts = client.attempts
             /\ proc.state = "down" => proc'.state = "down"
             /\ svc' # svc => proc'.state = "down"
             /\ \A c \in Tasks :
                   task'[c].pc \in {"sent", "lost"} => task[c].pc \in {"sent", "lost"}]_allvars

\* The state machine is in Failed because the replay of the LoadBinary was
\* answered with a failure by an engine that runs (attempts were left).
C21_Witness ==
    /\ client.conn = "Failed"
    /\ client.attempts < MaxReconnectAttempts
    /\ client.replay # NULL
    /\ proc.state = "up"
    /\ ~Loaded(svc)

(***************************************************************************)
(* Properties of the C wrapper.                                            *)
(***************************************************************************)
\* This step is a call of fission_decompile or fission_disassemble.
CallsWrapper == ffi'.fn \in {"fission_decompile", "fission_disassemble"}

\* The text the call with arguments args of function fn has to deliver.
FullText(fn, args) ==
    IF fn = "fission_decompile" THEN DecompileText(args.base_addr)
    ELSE DisassembleText(args.bytes.at, args.bytes_len, args.base_addr).output

\* C23: fission_decompile and fission_disassemble return -1, record a
\* last-error message (which fission_get_error then returns) and leave
\* out_buffer untouched whenever the handle is null or not initialized, bytes
\* is null or bytes_len is 0, or out_buffer is null or out_len is 0.
C23_InvalidArgumentsRejected ==
    [][CallsWrapper =>
          LET a == ffi'.args
              no_handle == a.decomp = NULL \/ ~a.decomp.initialized
              no_bytes == a.bytes = NULL \/ a.bytes_len = 0
              no_buffer == a.out_buffer = NULL \/ a.out_len = 0
          IN  no_handle \/ no_bytes \/ no_buffer =>
                 /\ ffi'.status = "returned"
                 /\ ffi'.ret = -1
                 /\ g_last_error' =
                       IF no_handle THEN <<"Decompiler not initialized">>
                       ELSE IF no_bytes THEN <<"Invalid input bytes">>
                       ELSE <<"Invalid output buffer">>
                 /\ fission_get_error(g_last_error') # NULL
                 /\ out_buffer' = FreshBuffer]_allvars

\* A call with a live handle, machine code and a buffer stated to be of
\* length 0 has returned -1 and written nothing to the buffer.
C23_Witness ==
    /\ ffi.fn = "fission_disassemble"
    /\ ffi.args.decomp # NULL /\ ffi.args.bytes # NULL /\ ffi.args.bytes_len > 0
    /\ ffi.args.out_buffer # NULL /\ ffi.args.out_len = 0
    /\ ffi.ret = -1
    /\ g_last_error = <<"Invalid output buffer">>
    /\ \A i \in 1 .. BufLen : out_buffer[i] = Untouched

\* C24: on success fission_decompile and fission_disassemble return the
\* number of bytes of text written to out_buffer: for every out_len >= 1 the
\* value r returned satisfies 0 <= r <= out_len - 1 and r = min(length of the
\* full text, out_len - 1), the first r bytes of out_buffer are those of the
\* text, out_buffer[r] is the NUL terminator, and no byte at an index >=
\* out_len is written.
C24_ReturnsBytesWritten ==
    [][CallsWrapper /\ ffi'.status = "returned" /\ ffi'.ret # -1 =>
          LET a == ffi'.args
              r == ffi'.ret
              text == FullText(ffi'.fn, a)
          IN  /\ a.out_len >= 1
              /\ 0 <= r /\ r <= a.out_len - 1
              /\ r = Min(Len(text), a.out_len - 1)
              /\ \A i \in 0 .. (r - 1) : out_buffer'[i + 1] = text[i + 1]
              /\ out_buffer'[r + 1] = NUL
              /\ \A i \in a.out_len .. (BufLen - 1) : out_buffer'[i + 1] = Untouched]_allvars

\* A text cut to the length of the buffer: fission_decompile has returned
\* out_len - 1, less than the length of its text, the terminator is the last
\* byte of the stated length, and the byte after it was not written.
C24_Witness ==
    /\ ffi.fn = "fission_decompile" /\ ffi.status = "returned"
    /\ ffi.args.out_len \in 2 .. (BufLen - 1)
    /\ ffi.ret = ffi.args.out_len - 1
    /\ ffi.ret < Len(DecompileText(ffi.args.base_addr))
    /\ out_buffer[ffi.ret] # NUL /\ out_buffer[ffi.ret + 1] = NUL
    /\ out_buffer[ffi.ret + 2] = Untouched

(***************************************************************************)
(* Properties of the order of the client's requests.                       *)
(***************************************************************************)
\* The tasks whose LoadBinary RPC is sent and whose response has not arrived.
LoadsOutstanding ==
    {d \in Tasks : task[d].pc \in {"sent", "answered", "lost"} /\ task[d].op = "load_binary"}

\* This step is task c sending a DecompileFunction or DisassembleRange RPC.
SendsRequest(c) ==
    /\ task[c].pc \in {"idle", "wait"}
    /\ task'[c].pc \in {"sent", "lost"}
    /\ task'[c].op \in {"get_or_compute", "disassemble_range"}

\* This step is the engine running the handler of the DecompileFunction or
\* DisassembleRange RPC of task c.
ReachesEngine(c) ==
    /\ task[c].pc = "sent"
    /\ task'[c].pc = "answered"
    /\ task[c].op \in {"get_or_compute", "disassemble_range"}

CursorAfter(b) ==
    LET n == Len(b.instructions)
    IN  IF n = 0 THEN b.start_addr
        ELSE (b.instructions[n].address + b.instructions[n].length) % AddrMod

\* The mnemonic is one of a return.
IsReturn(mnem) == StrFind(Chars(mnem), Chars("RET"))

\* The mnemonic is one of an unconditional return or jump.
IsUnconditionalExit(mnem) == IsReturn(mnem) \/ StrFind(Chars(mnem), Chars("JMP"))

C26_StopsAtFirstExit ==
    \A t \in Threads :
        Done(t, "DecompileFunction") /\ call[t].reply.success =>
            \A b \in BlocksOf(call[t].reply) :
                \A i \in 1 .. (Len(b.instructions) - 1) :
                    ~IsUnconditionalExit(b.instructions[i].mnemonic)

\* C27: after a LoadBinary that returned success=true and until the next
\* LoadBinary call, no DecompileFunction returns the not-loaded error: the
\* successful load leaves the fields the check of DecompileFunction tests
\* (initialized, arch) in their loaded values, no step other than a
\* LoadBinary changes that, and a DecompileFunction served meanwhile does not
\* answer "Binary not loaded".
C27_LoadedUntilNextLoad ==
    [][\A t \in Threads :
          /\ Returns(t, "LoadBinary") /\ call'[t].reply.success =>
                svc'.initialized /\ svc'.arch # NULL
          /\ svc.initialized /\ svc.arch # NULL /\ (\A u \in Threads : ~Returns(u, "LoadBinary")) =>
                svc'.initialized /\ svc'.arch # NULL
          /\ Returns(t, "DecompileFunction") /\ svc.initialized /\ svc.arch # NULL =>
                /\ call'[t].reply # NotLoadedReply
                /\ call'[t].reply.error_message # "Binary not loaded"]_vars

\* The third function of a session has been decompiled after the LoadBinary
\* that created the session.
C27_Witness ==
    \E t \in Threads :
        /\ Done(t, "DecompileFunction") /\ call[t].reply.success
        /\ svc.initialized /\ svc.arch # NULL
        /\ Cardinality(svc.arch.symboltab) = 3

\* C28: every DecompileFunction response with success=false carries an error
\* message and nothing else: no basic block, no c_code and no signature of a
\* run that failed part-way.
C28_FailureCarriesNothingElse ==
    \A t \in Threads :
        Done(t, "DecompileFunction") /\ ~call[t].reply.success =>
            /\ call[t].reply.error_message # ""
            /\ call[t].reply.blocks = <<>>
            /\ call[t].reply.c_code = <<>>
            /\ call[t].reply.signature = <<>>

\* C29: every successful DecompileFunction response holds exactly one basic
\* block, which starts at the requested address, and the block is one linear
\* run: its first instruction lies at the start and each next one right after
\* the one before it, whatever the target of a branch.
C29_OneLinearBlock ==
    \A t \in Threads :
        Done(t, "DecompileFunction") /\ call[t].reply.success =>
            /\ Len(call[t].reply.blocks) = 1
            /\ LET b == call[t].reply.blocks[1]
                   n == Len(b.instructions)
               IN  /\ b.start_addr = call[t].request.address
                   /\ n >= 1 => b.instructions[1].address = b.start_addr
                   /\ \A i \in 1 .. (n - 1) :
                         b.instructions[i + 1].address =
                            (b.instructions[i].address + b.instructions[i].length) % AddrMod

\* A block that holds a jump to address 0 and, after it, the instruction that
\* follows the jump in memory.
C29_Witness ==
    \E t \in Threads :
        /\ Done(t, "DecompileFunction") /\ call[t].reply.success
        /\ Len(call[t].reply.blocks) = 1
        /\ LET b == call[t].reply.blocks[1]
           IN  /\ Len(b.instructions) >= 2
               /\ b.instructions[1].mnemonic = "JMP"
               /\ b.instructions[1].operands = "0x0"
               /\ b.instructions[2].address = (b.start_addr + 2) % AddrMod
               /\ b.instructions[2].address # 0

(***************************************************************************)
(* Properties of the function records of a session.                        *)
(***************************************************************************)
\* The records of address in a symbol table.
RecordsAt(symboltab, address) == {f \in symboltab : f.address = address}

\* C30: within one Loaded session there is at most one function record per
\* address: a DecompileFunction for an address that has a record reuses it
\* (no record is added, its name is kept) and the record holds the analysis
\* of this call alone, the prior one having been reset; a call for a new
\* address adds one record, holding one analysis (none when the engine
\* yields no function); the records of other addresses are left alone.
C30_OneRecordPerAddress ==
    [][\A t \in Threads :
          Returns(t, "DecompileFunction") /\ Loaded(svc) =>
              LET address == call'[t].request.address
                  before == svc.arch.symboltab
                  after == svc'.arch.symboltab
              IN  /\ \A f \in after, g \in after : f.address = g.address => f = g
                  /\ after \ RecordsAt(after, address) = before \ RecordsAt(before, address)
                  /\ \A f \in RecordsAt(after, address) :
                        f.procStarted /\ f.analyses = 1 /\ f.name = FunctionName(address)
                  /\ RecordsAt(before, address) # {} =>
                        Cardinality(after) = Cardinality(before)
                  /\ RecordsAt(before, address) = {} =>
                        IF call'[t].reply.error_message = "Failed to create function"
                        THEN after = before
                        ELSE Cardinality(after) = Cardinality(before) + 1]_vars

\* Functions at two addresses have been decompiled in one session, the last
\* call with an analysis that threw: each has one record holding one
\* analysis.
C30_Witness ==
    \E t \in Threads :
        /\ Done(t, "DecompileFunction") /\ call[t].caught # "none"
        /\ Loaded(svc)
        /\ Cardinality(svc.arch.symboltab) = 2
        /\ \A f \in svc.arch.symboltab : f.procStarted /\ f.analyses = 1

(***************************************************************************)
(* Properties of the instructions of a block.                              *)
(***************************************************************************)
\* C31: in every basic block DecompileFunction produces, in a successful
\* response or in one an exception cut short, the instructions are contiguous
\* and in address order: the first one is at the block's start_addr and each
\* following one is at the address of the one before it plus the length of
\* the one before it (the addition of the address space: a block that
\* crosses its top goes on at address 0).
C31_InstructionsContiguous ==
    \A t \in Threads :
        Done(t, "DecompileFunction") =>
            \A b \in BlocksOf(call[t].reply) :
                LET instrs == b.instructions
                IN  /\ Len(instrs) >= 1 => instrs[1].address = b.start_addr
                    /\ \A i \in 2 .. Len(instrs) :
                          LET next == instrs[i - 1].address + instrs[i - 1].length
                          IN  /\ instrs[i].address = next % AddrMod
                              /\ next < AddrMod => instrs[i].address > instrs[i - 1].address

\* A block of three instructions of two bytes each, none of them across the
\* top of the address space: the addresses rise by 2.
C31_Witness ==
    \E t \in Threads :
        /\ Done(t, "DecompileFunction")
        /\ \E b \in BlocksOf(call[t].reply) :
              /\ Len(b.instructions) >= 3
              /\ b.instructions[1].address = b.start_addr
              /\ b.instructions[2].address = b.start_addr + 2
              /\ b.instructions[3].address = b.start_addr + 4

\* C32: every instruction of a DecompileFunction response carries raw_bytes
\* of exactly `length` bytes, equal to the content of the memory image at
\* [address, address + length).
C32_RawBytesAreImageContent ==
    \A t \in Threads :
        Done(t, "DecompileFunction") /\ Loaded(svc) =>
            \A b \in BlocksOf(call[t].reply) :
                \A i \in 1 .. Len(b.instructions) :
                    LET instr == b.instructions[i]
                    IN  /\ Len(instr.raw_bytes) = instr.length
                        /\ instr.raw_bytes = loadFill(svc.loader, instr.length, instr.address)

(***************************************************************************)
(* Properties of the Ping of a reconnect attempt.                          *)
(***************************************************************************)
\* C33: in Reconnecting a successful Ping leads to Reloading exactly when a
\* BinarySession loaded before is recorded, and directly to Connected
\* otherwise: the session recorded is never forgotten, Reloading is entered
\* only from Reconnecting, with a session recorded and an engine that
\* answers, Connected is entered from Reconnecting only with no session
\* recorded, and then no LoadBinary is replayed (the engine is left as it
\* is and no replay is recorded).
C33_PingLeadsToReloadOrConnected ==
    [][/\ client.session # NULL => client'.session # NULL
       /\ client.conn = "Reconnecting" /\ client'.conn # client.conn =>
             client'.conn =
                IF proc.state # "up" THEN "Disconnected"
                ELSE IF client.session # NULL THEN "Reloading"
                ELSE "Connected"
       /\ client'.conn = "Reloading" /\ client.conn # "Reloading" =>
             /\ client.conn = "Reconnecting"
             /\ proc.state = "up"
             /\ client.session # NULL /\ client'.replay = client.session
       /\ Goes("Reconnecting", "Connected") =>
             /\ proc.state = "up"
             /\ client.session = NULL /\ client'.replay = NULL
             /\ svc' = svc /\ task' = task
       /\ client.session = NULL =>
             /\ client.conn # "Reloading" /\ client.replay = NULL
             /\ svc' # svc => \E c \in Tasks : task[c].pc = "sent" \/ proc'.state = "down"]_allvars

\* The client is Connected to a restarted engine although it never loaded a
\* binary: the call the termination of the engine lost has not been
\* reported to its task yet.
C33_Witness ==
    /\ client.conn = "Connected" /\ proc.state = "up"
    /\ client.session = NULL /\ client.replay = NULL
    /\ ~Loaded(svc)
    /\ \E c \in Tasks : task[c].pc = "lost"

(***************************************************************************)
(* Properties of the initialisation of the library.                        *)
(***************************************************************************)
\* This step is thread t reading or writing g_library_initialized.
AccessesFlag(t) ==
    /\ caller[t].pc \in {"check", "set", "available"}
    /\ caller'[t].pc # caller[t].pc

\* C34: the initialisation of the library is thread-safe and happens once:
\* in every interleaving of concurrent fission_decompiler_init calls
\* startDecompilerLibrary completes at most once, g_library_initialized is
\* read and written only by a thread that holds g_init_mutex, and once
\* fission_is_available has returned 1 it never returns 0 again.
C34_InitOnceUnderMutex ==
    [][/\ startups'.completed <= 1
       /\ \A t \in Callers :
             /\ AccessesFlag(t) => g_init_mutex = t
             /\ /\ startups.available
                /\ caller[t].pc = "available" /\ caller'[t].pc = "done"
                => caller'[t].ret = 1]_allvars

(***************************************************************************)
(* Properties of the state of the service.                                 *)
(***************************************************************************)
\* C35: in every state between two executions of handlers, after whatever
\* calls of LoadBinary, DecompileFunction, Ping and DisassembleRange that
\* succeeded or failed, the components of the session are all present or
\* all absent: the service holds a loader if and only if it holds an
\* architecture if and only if its initialized flag is set.
C35_SessionAllOrNothing ==
    /\ (svc.loader # NULL) <=> (svc.arch # NULL)
    /\ (svc.arch # NULL) <=> svc.initialized
    /\ Loaded(svc) \/ Uninitialized(svc)

\* A LoadBinary for a base address other than 0 has failed: the base address
\* of the request is stored, and loader, architecture and flag are absent.
C35_Witness ==
    \E t \in Threads :
        /\ Done(t, "LoadBinary") /\ ~call[t].reply.success
        /\ call[t].request.base_address # 0
        /\ svc.base_address = call[t].request.base_address
        /\ svc.loader = NULL /\ svc.arch = NULL /\ ~svc.initialized

(***************************************************************************)
(* Properties of the health check.                                         *)
(***************************************************************************)
\* C36: a Ping is answered without waiting for the service mutex: a thread
\* that serves a Ping never waits for mu_; from the moment the Ping is
\* issued its handler can run to its return, whoever holds mu_ and whatever
\* LoadBinary or DecompileFunction is executing; and its return answers
\* alive=true with status OK and takes no step of another thread and no
\* change of the mutex.
C36_PingNeverWaits ==
    /\ [](\A t \in Threads :
            call[t].rpc = "Ping" =>
               /\ pc[t] \in {"body", "done"}
               /\ pc[t] = "body" => ENABLED PingBody(t))
    /\ [][\A t \in Threads :
          Returns(t, "Ping") =>
             /\ call'[t].status = "OK" /\ call'[t].reply.alive
             /\ mu_' = mu_
             /\ \A u \in Threads \ {t} : pc'[u] = pc[u] /\ call'[u] = call[u]]_vars

\* A Ping has been answered alive=true while another thread, holding mu_, is
\* still executing LoadBinary or DecompileFunction.
C36_Witness ==
    \E t \in Threads, u \in Threads :
        /\ Done(t, "Ping") /\ call[t].reply.alive
        /\ pc[u] = "body" /\ call[u].rpc \in LockingHandlers
        /\ mu_ = u

(***************************************************************************)
(* Properties of the memory image adapters.                                *)
(***************************************************************************)
\* The byte a read of the image has to return for position p: that of the
\* buffer at the distance of p from the base address, counted modulo the
\* size of the address space, when the distance is below the length of the
\* buffer, and 0 otherwise.
MappedByte(p) ==
    LET distance == (p - image.base) % AddrMod
    IN  IF distance < Len(image.data) THEN image.data[distance + 1] ELSE 0

\* C37: the read of the memory image is correct under wrap-around of the
\* address arithmetic: for every base address and buffer length, also where
\* base_address + len(buffer) or address + i passes the top of the address
\* space and wraps, MemoryLoadImage::loadFill returns buffer[(p -
\* base_address) mod 2^64] for exactly the positions p whose distance from
\* the base is below len(buffer), and 0 for all others.
C37_ReadCorrectUnderWrap ==
    fill.read =>
        /\ Len(fill.memory) = fill.size
        /\ \A i \in 0 .. (fill.size - 1) :
              fill.memory[i + 1] = MappedByte((fill.address + i) % AddrMod)

\* C38: the two memory image adapters agree: for the same buffer, base
\* address, read address and size BufferLoadImage::loadFill and
\* MemoryLoadImage::loadFill fill identical bytes, also for a read that
\* starts below the base address and extends into the mapped range.
C38_AdaptersAgree ==
    fill.read => fill.buffer = fill.memory

====
